---- MODULE Spec2Model ----
(***************************************************************************)
(* The internal checkout engine of cvs2svn (cvs2svn_lib/checkout_internal): *)
(* TextRecords and their reference counts, the TextRecordDatabase with its  *)
(* discard cascade, the recorder that turns parser events into records, the *)
(* filter pass and the output pass that checks revisions out.               *)
(***************************************************************************)
EXTENDS Integers, Sequences, FiniteSets, TLC

\* The largest number of revisions in the repository (all files together).
MaxRevs == 4

\* The files of the repository.
Files == {1, 2}

\* Python's None, for a revision, for an id and for deferred_deletes.
NoRev == <<>>

NoId == 0 - 1

NoList == <<NoId>>

----------------------------------------------------------------------------
\* Revision numbers.  <<1, k>> is trunk revision 1.k; <<1, k, 2, j>> is the
\* j-th revision of the branch 1.k.2 that sprouts from 1.k.

TrunkRevs == { <<1, k>> : k \in 1..MaxRevs }

BranchRevs ==
  { <<1, kj[1], 2, kj[2]>> :
      kj \in { p \in (1..MaxRevs) \X (1..MaxRevs) : p[1] + p[2] <= MaxRevs } }

AllRevs == TrunkRevs \cup BranchRevs

is_trunk_revision(rev) == Len(rev) = 2

\* The revision that precedes rev in time (NoRev for 1.1).
LogicalParent(rev) ==
  IF rev[Len(rev)] > 1
    THEN [rev EXCEPT ![Len(rev)] = rev[Len(rev)] - 1]
    ELSE IF Len(rev) = 2 THEN NoRev ELSE SubSeq(rev, 1, Len(rev) - 2)

\* The revision trees an RCS file can hold.
WellFormed(revs) ==
  /\ <<1, 1>> \in revs
  /\ \A r \in revs : LogicalParent(r) # NoRev => LogicalParent(r) \in revs

FileShapes ==
  { revs \in SUBSET AllRevs : WellFormed(revs) /\ Cardinality(revs) <= MaxRevs }

TrunkOf(revs) == { r \in revs : is_trunk_revision(r) }

HeadOf(revs) ==
  CHOOSE r \in TrunkOf(revs) : \A q \in TrunkOf(revs) : q[2] <= r[2]

\* RCS "next" field: on trunk the previous revision, on a branch the
\* following one.
NextOf(revs, rev) ==
  IF is_trunk_revision(rev)
    THEN LogicalParent(rev)
    ELSE LET n == [rev EXCEPT ![Len(rev)] = rev[Len(rev)] + 1]
         IN  IF n \in revs THEN n ELSE NoRev

\* RCS "branches" field: the first revisions of the branches of rev.
BranchesOf(revs, rev) ==
  { b \in revs : ~is_trunk_revision(b) /\ b[Len(b)] = 1 /\ LogicalParent(b) = rev }

----------------------------------------------------------------------------
\* cvs_rev_ids and CheckoutStore keys.

RECURSIVE Enc(_)
Enc(s) ==
  IF Len(s) = 0 THEN 0
  ELSE Enc(SubSeq(s, 1, Len(s) - 1)) * (MaxRevs + 2) + s[Len(s)]

\* cvs_file_items.original_ids[revision] of file f.
original_ids(f, rev) == Enc(<<f>> \o rev)

HexDigits ==
  <<"0", "1", "2", "3", "4", "5", "6", "7",
    "8", "9", "a", "b", "c", "d", "e", "f">>

\* Hex with the last digit lost: the keys of different ids collide.
Hex_Truncated(n) == <<HexDigits[((n \div 16) % 16) + 1]>>

RECURSIVE Hex(_)
\* '%x' % id
Hex(n) ==
  IF n < 16 THEN <<HexDigits[n + 1]>>
  ELSE Hex(n \div 16) \o <<HexDigits[(n % 16) + 1]>>

----------------------------------------------------------------------------
\* Texts are sequences of lines; a delta is a sequence of RCS ed commands
\* whose line numbers refer to the text the delta is applied to.

DelCmd(l, c) == [op |-> "d", line |-> l, lines |-> <<>>, count |-> c]
AddCmd(l, ls) == [op |-> "a", line |-> l, lines |-> ls, count |-> Len(ls)]

\* A delta text that is no sequence of ed commands.
Malformed == <<[op |-> "?", line |-> 0, lines |-> <<>>, count |-> 0]>>

\* State of one pass over a delta: old text, output so far, lines of the old
\* text consumed, reverse delta so far.
RECURSIVE RunDiff(_, _, _, _, _)
RunDiff(old, delta, i, out, st) ==
  IF st.bad THEN st
  ELSE IF i > Len(delta)
    THEN [st EXCEPT !.text = out \o SubSeq(old, st.pos + 1, Len(old))]
  ELSE
    LET c == delta[i] IN
    IF c.op \notin {"a", "d"} THEN [st EXCEPT !.bad = TRUE]
    ELSE IF c.op = "d"
      THEN IF c.line < st.pos + 1 \/ c.line + c.count - 1 > Len(old) \/ c.count < 1
             THEN [st EXCEPT !.bad = TRUE]
             ELSE LET kept == out \o SubSeq(old, st.pos + 1, c.line - 1)
                  IN  RunDiff(old, delta, i + 1, kept,
                        [st EXCEPT
                           !.pos = c.line + c.count - 1,
                           !.inverse = st.inverse \o
                             <<AddCmd(Len(kept),
                                      SubSeq(old, c.line, c.line + c.count - 1))>>])
      ELSE IF c.line < st.pos \/ c.line > Len(old) \/ c.count < 1
             THEN [st EXCEPT !.bad = TRUE]
             ELSE LET kept == out \o SubSeq(old, st.pos + 1, c.line)
                  IN  RunDiff(old, delta, i + 1, kept \o c.lines,
                        [st EXCEPT
                           !.pos = c.line,
                           !.inverse = st.inverse \o
                             <<DelCmd(Len(kept) + 1, c.count)>>])

RcsRun(old, delta) ==
  RunDiff(old, delta, 1, <<>>,
          [bad |-> FALSE, pos |-> 0, text |-> <<>>, inverse |-> <<>>])

\* RCSStream(text).apply_diff(delta); get_text()
apply_diff(text, delta) == RcsRun(text, delta).text

\* RCSStream(text).invert_diff(delta): the new text and the reverse delta.
invert_diff(text, delta) ==
  LET r == RcsRun(text, delta) IN [text |-> r.text, inverse |-> r.inverse]

DiffFails(text, delta) == RcsRun(text, delta).bad

----------------------------------------------------------------------------
\* TextRecords.  A database bundle D holds the TextRecordDatabase
\* (text_records, deferred_deletes) together with the two stores it was
\* constructed with, the exception that is propagating if any (err), the
\* number of times apply_diff ran for each record (applied), the number of
\* calls of discard, free and decrement_refcount that are active (depth),
\* the largest number of them that were active at once (maxdepth), and what
\* the calls made since the bundle was set up did (cascade): the ids free
\* was called for (freed), the ids discard was called with (pushed), those
\* of them it was called with while a cascade was active (nested), whether
\* each of these nested calls did nothing but append its ids to
\* deferred_deletes (nested_ok), and whether decrement_refcount was called
\* on a record whose refcount was 0 (underflow).

FullTextRecord(id) ==
  [kind |-> "FullTextRecord", id |-> id, refcount |-> 0, pred_id |-> NoId]

DeltaTextRecord(id, pred_id) ==
  [kind |-> "DeltaTextRecord", id |-> id, refcount |-> 0, pred_id |-> pred_id]

\* A CheckedOutTextRecord that is taken for a FullTextRecord.
CheckedOutTextRecord_AsFull(id) ==
  [kind |-> "FullTextRecord", id |-> id, refcount |-> 0, pred_id |-> NoId]

CheckedOutTextRecord(id) ==
  [kind |-> "CheckedOutTextRecord", id |-> id, refcount |-> 0, pred_id |-> NoId]

EmptyMap == [x \in {} |-> 0]

NoCascade ==
  [freed |-> <<>>, pushed |-> <<>>, nested |-> <<>>, nested_ok |-> TRUE,
   underflow |-> FALSE]

Put(m, k, v) == [x \in (DOMAIN m) \cup {k} |-> IF x = k THEN v ELSE m[x]]

Remove(m, k) == [x \in (DOMAIN m) \ {k} |-> m[x]]

TextRecordDatabase(delta_db, delta_kind, checkout_db, checkout_kind) ==
  [text_records |-> EmptyMap,
   delta_db |-> delta_db, delta_kind |-> delta_kind,
   checkout_db |-> checkout_db, checkout_kind |-> checkout_kind,
   deferred_deletes |-> NoList,
   err |-> "none",
   applied |-> EmptyMap,
   depth |-> 0,
   maxdepth |-> 0,
   cascade |-> NoCascade]

Raise(D, e) == [D EXCEPT !.err = e]

Ok(D) == D.err = "none"

\* A call of discard, free or decrement_refcount begins.
Enter(D) ==
  [D EXCEPT !.depth = @ + 1,
            !.maxdepth = IF D.depth + 1 > @ THEN D.depth + 1 ELSE @]

\* The call returns or is left by an exception.
Leave(D) == [D EXCEPT !.depth = @ - 1]

\* TextRecordDatabase.add
add(D, text_record) ==
  IF ~Ok(D) THEN D
  ELSE IF text_record.id \in DOMAIN D.text_records
    THEN Raise(D, "AssertionError")
    ELSE [D EXCEPT !.text_records = Put(@, text_record.id, text_record)]

\* replace that leaves the old record in place.
replace_Noop(D, text_record) == D

\* TextRecordDatabase.replace
replace(D, text_record) ==
  IF ~Ok(D) THEN D
  ELSE IF text_record.id \notin DOMAIN D.text_records
    THEN Raise(D, "AssertionError")
    ELSE [D EXCEPT !.text_records = Put(@, text_record.id, text_record)]

\* __delitem__ that leaves the record in the database.
delitem_Noop(D, id) == D

\* TextRecordDatabase.__delitem__
delitem(D, id) ==
  IF ~Ok(D) THEN D
  ELSE IF id \notin DOMAIN D.text_records
    THEN Raise(D, "KeyError")
    ELSE [D EXCEPT !.text_records = Remove(@, id)]

\* del text_record_db.delta_db[id] that deletes nothing from any database.
del_delta_db_Noop(D, id) == D

\* del text_record_db.delta_db[id] where the output pass's database deletes
\* like any IndexedDatabase.
del_delta_db_Enabled(D, id) ==
  IF ~Ok(D) THEN D
  ELSE IF D.delta_kind # "NullDatabase"
    THEN IF id \in DOMAIN D.delta_db
           THEN [D EXCEPT !.delta_db = Remove(@, id)]
           ELSE Raise(D, "KeyError")
    ELSE D

\* del text_record_db.delta_db[id]: an IndexedDatabase deletes the entry, a
\* NullDatabase and the output pass's disabled database do nothing.
del_delta_db(D, id) ==
  IF ~Ok(D) THEN D
  ELSE IF D.delta_kind = "IndexedDatabase"
    THEN IF id \in DOMAIN D.delta_db
           THEN [D EXCEPT !.delta_db = Remove(@, id)]
           ELSE Raise(D, "KeyError")
    ELSE D

\* CheckedOutTextRecord.free that leaves the fulltext in the CheckoutStore.
del_checkout_db_Noop(D, id) == D

\* del text_record_db.checkout_db['%x' % id]
del_checkout_db(D, id) ==
  IF ~Ok(D) THEN D
  ELSE IF D.checkout_kind = "Database"
    THEN IF Hex(id) \in DOMAIN D.checkout_db
           THEN [D EXCEPT !.checkout_db = Remove(@, Hex(id))]
           ELSE Raise(D, "KeyError")
    ELSE D

RECURSIVE decrement_refcount(_, _)
RECURSIVE discard(_, _)
RECURSIVE discard_loop(_)
RECURSIVE free(_, _)

\* decrement_refcount that calls discard whatever the refcount has become.
decrement_refcount_Eager(D, id) ==
  IF ~Ok(D) THEN D
  ELSE Leave(discard([Enter(D) EXCEPT !.text_records[id].refcount = @ - 1], <<id>>))

\* decrement_refcount that never calls discard.
decrement_refcount_NoDiscard(D, id) ==
  IF ~Ok(D) THEN D
  ELSE [D EXCEPT !.text_records[id].refcount = @ - 1]

\* D2 is the bundle D1 after a call of discard: if a cascade was active in
\* D1, nested_ok records whether the call left the records and the stores
\* as they were and called no free.
Nested(D1, D2) ==
  IF D1.deferred_deletes = NoList THEN D2
  ELSE [D2 EXCEPT !.cascade.nested_ok =
          /\ @
          /\ D2.text_records = D1.text_records
          /\ D2.delta_db = D1.delta_db
          /\ D2.checkout_db = D1.checkout_db
          /\ D2.cascade.freed = D1.cascade.freed
          /\ Len(D2.deferred_deletes) = Len(D1.deferred_deletes) + 1]

\* TextRecord.decrement_refcount, called on the record D.text_records[id].
decrement_refcount(D, id) ==
  IF ~Ok(D) THEN D
  ELSE
    LET D1 == [Enter(D) EXCEPT !.text_records[id].refcount = @ - 1,
                               !.cascade.underflow =
                                 @ \/ D.text_records[id].refcount = 0]
    IN  Leave(IF D1.text_records[id].refcount = 0
                THEN Nested(D1, discard(D1, <<id>>))
                ELSE D1)

\* free in which a Delta record does not decrement its predecessor.
free_NoCascade(D, text_record) ==
  IF ~Ok(D) THEN D
  ELSE IF text_record.kind = "CheckedOutTextRecord"
    THEN del_checkout_db(D, text_record.id)
    ELSE del_delta_db(D, text_record.id)

\* FullTextRecord.free, DeltaTextRecord.free, CheckedOutTextRecord.free
free(D, text_record) ==
  IF ~Ok(D) THEN D
  ELSE
    LET D0 == [Enter(D) EXCEPT !.cascade.freed = Append(@, text_record.id)]
    IN  IF text_record.kind = "FullTextRecord"
          THEN Leave(del_delta_db(D0, text_record.id))
        ELSE IF text_record.kind = "DeltaTextRecord"
          THEN LET D1 == del_delta_db(D0, text_record.id)
               IN  Leave(IF ~Ok(D1) THEN D1
                         ELSE IF text_record.pred_id \notin DOMAIN D1.text_records
                           THEN Raise(D1, "KeyError")
                           ELSE decrement_refcount(D1, text_record.pred_id))
        ELSE Leave(del_checkout_db(D0, text_record.id))

\* The loop that removes each record without calling its free.
discard_loop_NoFree(D) ==
  IF ~Ok(D) THEN D
  ELSE IF D.deferred_deletes = <<>>
    THEN [D EXCEPT !.deferred_deletes = NoList]
  ELSE
    LET n  == Len(D.deferred_deletes)
        id == D.deferred_deletes[n]
        D1 == [D EXCEPT !.deferred_deletes = SubSeq(@, 1, n - 1)]
    IN  IF id \notin DOMAIN D1.text_records
          THEN Raise(D1, "KeyError")
        ELSE IF D1.text_records[id].refcount # 0
          THEN Raise(D1, "InternalError")
        ELSE discard_loop(delitem(D1, id))

\* The loop with free called before the refcount is looked at.
discard_loop_FreeFirst(D) ==
  IF ~Ok(D) THEN D
  ELSE IF D.deferred_deletes = <<>>
    THEN [D EXCEPT !.deferred_deletes = NoList]
  ELSE
    LET n  == Len(D.deferred_deletes)
        id == D.deferred_deletes[n]
        D1 == [D EXCEPT !.deferred_deletes = SubSeq(@, 1, n - 1)]
    IN  IF id \notin DOMAIN D1.text_records
          THEN Raise(D1, "KeyError")
        ELSE LET D2 == free(D1, D1.text_records[id])
             IN  IF D1.text_records[id].refcount # 0
                   THEN Raise(D2, "InternalError")
                   ELSE discard_loop(delitem(D2, id))

\* The while loop of the outer-level discard.
discard_loop(D) ==
  IF ~Ok(D) THEN D
  ELSE IF D.deferred_deletes = <<>>
    THEN [D EXCEPT !.deferred_deletes = NoList]
  ELSE
    LET n  == Len(D.deferred_deletes)
        id == D.deferred_deletes[n]
        D1 == [D EXCEPT !.deferred_deletes = SubSeq(@, 1, n - 1)]
    IN  IF id \notin DOMAIN D1.text_records
          THEN Raise(D1, "KeyError")
        ELSE IF D1.text_records[id].refcount # 0
          THEN Raise(D1, "InternalError")
        ELSE discard_loop(delitem(free(D1, D1.text_records[id]), id))

RECURSIVE discard_Recursive(_, _)
\* discard without deferred_deletes: each record is freed and removed in
\* the call that names it, also when that call is made from a free.
discard_Recursive(D, ids) ==
  IF ~Ok(D) \/ ids = <<>> THEN D
  ELSE LET id == Head(ids)
           D1 == Enter(D)
           D2 == IF id \notin DOMAIN D1.text_records
                   THEN Raise(D1, "KeyError")
                   ELSE delitem(free(D1, D1.text_records[id]), id)
       IN  discard_Recursive(Leave(D2), Tail(ids))

\* discard that drops the ids it is given while a cascade is active.
discard_DropNested(D, ids) ==
  IF ~Ok(D) THEN D
  ELSE IF D.deferred_deletes = NoList
    THEN discard_loop([D EXCEPT !.deferred_deletes = ids])
    ELSE D

\* discard that removes the record itself, without free, when it is called
\* while a cascade is active.
discard_NestedRemoves(D, ids) ==
  IF ~Ok(D) THEN D
  ELSE IF D.deferred_deletes = NoList
    THEN Leave(discard_loop([Enter(D) EXCEPT !.deferred_deletes = ids,
                                             !.cascade.pushed = @ \o ids]))
    ELSE Leave(delitem([Enter(D) EXCEPT !.cascade.pushed = @ \o ids,
                                        !.cascade.nested = @ \o ids],
                       ids[1]))

\* TextRecordDatabase.discard(*ids)
discard(D, ids) ==
  IF ~Ok(D) THEN D
  ELSE IF D.deferred_deletes = NoList
    THEN Leave(discard_loop([Enter(D) EXCEPT !.deferred_deletes = ids,
                                             !.cascade.pushed = @ \o ids]))
    ELSE Leave([Enter(D) EXCEPT !.deferred_deletes = @ \o ids,
                                !.cascade.pushed = @ \o ids,
                                !.cascade.nested = @ \o ids])

\* DeltaTextRecord.checkout with free called on the record whose refcount
\* has reached zero.
checked_out_FreeAtZero(D, self, text) ==
  LET refcount == self.refcount - 1
  IN  IF refcount = 0
        THEN delitem(free(D, self), self.id)
        ELSE IF D.checkout_kind # "Database"
          THEN Raise(D, "AttributeError")
          ELSE replace([D EXCEPT !.checkout_db = Put(@, Hex(self.id), text)],
                       [CheckedOutTextRecord(self.id) EXCEPT !.refcount = refcount])

\* DeltaTextRecord.checkout that puts the CheckedOutTextRecord in place
\* without storing the fulltext.
checked_out_NotStored(D, self, text) ==
  LET refcount == self.refcount - 1
  IN  IF refcount = 0
        THEN delitem(D, self.id)
        ELSE replace(D, [CheckedOutTextRecord(self.id) EXCEPT !.refcount = refcount])

\* DeltaTextRecord.checkout that stores the fulltext and the
\* CheckedOutTextRecord whatever the refcount has come to.
checked_out_AlwaysStored(D, self, text) ==
  IF D.checkout_kind # "Database"
    THEN Raise(D, "AttributeError")
    ELSE replace([D EXCEPT !.checkout_db = Put(@, Hex(self.id), text)],
                 [CheckedOutTextRecord(self.id) EXCEPT
                    !.refcount = self.refcount - 1])

\* DeltaTextRecord.checkout from "self.refcount -= 1" on: the record self
\* deletes itself or is replaced by a CheckedOutTextRecord.
checked_out(D, self, text) ==
  LET refcount == self.refcount - 1
  IN  IF refcount = 0
        THEN delitem(D, self.id)
        ELSE IF D.checkout_kind # "Database"
          THEN Raise(D, "AttributeError")
          ELSE replace([D EXCEPT !.checkout_db = Put(@, Hex(self.id), text)],
                       [CheckedOutTextRecord(self.id) EXCEPT !.refcount = refcount])

RECURSIVE checkout(_, _)
\* text_record_db[id].checkout(text_record_db): the database afterwards and
\* the text returned.
checkout(D, id) ==
  IF ~Ok(D) THEN [D |-> D, text |-> <<>>]
  ELSE IF id \notin DOMAIN D.text_records
    THEN [D |-> Raise(D, "KeyError"), text |-> <<>>]
  ELSE
    LET self == D.text_records[id] IN
    IF self.kind = "FullTextRecord"
      THEN IF id \notin DOMAIN D.delta_db
             THEN [D |-> Raise(D, "KeyError"), text |-> <<>>]
             ELSE [D |-> decrement_refcount(D, id), text |-> D.delta_db[id]]
    ELSE IF self.kind = "DeltaTextRecord"
      THEN LET base == checkout(D, self.pred_id)
               D1   == base.D
           IN  IF ~Ok(D1) THEN [D |-> D1, text |-> <<>>]
               ELSE IF id \notin DOMAIN D1.delta_db
                 THEN [D |-> Raise(D1, "KeyError"), text |-> <<>>]
               ELSE IF DiffFails(base.text, D1.delta_db[id])
                 THEN [D |-> Raise(D1, "MalformedDeltaException"), text |-> <<>>]
               ELSE
                 LET text == apply_diff(base.text, D1.delta_db[id])
                     D2 == [D1 EXCEPT !.applied =
                              Put(@, id, IF id \in DOMAIN @ THEN @[id] + 1 ELSE 1)]
                     D3 == checked_out(D2, self, text)
                 IN  [D |-> D3, text |-> IF Ok(D3) THEN text ELSE <<>>]
    ELSE IF Hex(id) \notin DOMAIN D.checkout_db
      THEN [D |-> Raise(D, "KeyError"), text |-> <<>>]
      ELSE [D |-> decrement_refcount(D, id), text |-> D.checkout_db[Hex(id)]]

\* The second loop of recompute_refcounts left out.
increment_dependency_refcounts_None(D, todo) == D

RECURSIVE increment_dependency_refcounts(_, _)
\* The second loop of recompute_refcounts over the records todo.
increment_dependency_refcounts(D, todo) ==
  IF ~Ok(D) \/ todo = {} THEN D
  ELSE
    LET id == CHOOSE x \in todo : TRUE
        r  == D.text_records[id]
        D1 == IF r.kind # "DeltaTextRecord" THEN D
              ELSE IF r.pred_id \notin DOMAIN D.text_records
                THEN Raise(D, "KeyError")
                ELSE [D EXCEPT !.text_records[r.pred_id].refcount = @ + 1]
    IN  increment_dependency_refcounts(D1, todo \ {id})

\* The third loop of recompute_refcounts without the test for
\* CVSRevisionModification: every record is counted as needed by cvs2svn.
increment_wanted_All(D, ids) ==
  IF ~Ok(D) THEN D
  ELSE [D EXCEPT !.text_records =
          [id \in DOMAIN @ |-> [@[id] EXCEPT !.refcount = @ + 1]]]

RECURSIVE increment_wanted(_, _)
\* The third loop of recompute_refcounts over the ids of the
\* CVSRevisionModifications of cvs_file_items.
increment_wanted(D, ids) ==
  IF ~Ok(D) \/ ids = {} THEN D
  ELSE
    LET id == CHOOSE x \in ids : TRUE
        D1 == IF id \notin DOMAIN D.text_records
                THEN Raise(D, "KeyError")
                ELSE [D EXCEPT !.text_records[id].refcount = @ + 1]
    IN  increment_wanted(D1, ids \ {id})

\* recompute_refcounts that does not clear the refcounts first.
recompute_refcounts_NoClear(D, ids) ==
  IF ~Ok(D) THEN D
  ELSE increment_wanted(
         increment_dependency_refcounts(D, DOMAIN D.text_records), ids)

\* recompute_refcounts without the loop over the dependencies.
recompute_refcounts_NoDeps(D, ids) ==
  IF ~Ok(D) THEN D
  ELSE increment_wanted(
         [D EXCEPT !.text_records =
            [id \in DOMAIN @ |-> [@[id] EXCEPT !.refcount = 0]]], ids)

\* TextRecordDatabase.recompute_refcounts; ids are the ids of the
\* CVSRevisionModifications of cvs_file_items.
recompute_refcounts(D, ids) ==
  IF ~Ok(D) THEN D
  ELSE
    LET D0 == [D EXCEPT !.text_records =
                 [id \in DOMAIN @ |-> [@[id] EXCEPT !.refcount = 0]]]
    IN  increment_wanted(
          increment_dependency_refcounts(D0, DOMAIN D0.text_records), ids)

\* The ids that free_unused collects.
Unused(D) == { id \in DOMAIN D.text_records : D.text_records[id].refcount = 0 }

\* The orders in which itervalues() can deliver the ids of set S.
Orders(S) ==
  { q \in [1..Cardinality(S) -> S] : \A i, j \in DOMAIN q : i # j => q[i] # q[j] }

\* free_unused that hands every record of the database to discard, the
\* unused ones to be popped first.
free_unused_All(D, unused) ==
  LET rest == DOMAIN D.text_records \ { unused[i] : i \in DOMAIN unused }
  IN  discard(D, (CHOOSE q \in Orders(rest) : TRUE) \o unused)

\* TextRecordDatabase.free_unused, with the unused list in the order unused.
free_unused(D, unused) == discard(D, unused)

----------------------------------------------------------------------------
\* Pickling of a TextRecordDatabase for the tree stores.

\* TextRecord.__getstate__ with the class the pickle names.
record_getstate(r) ==
  IF r.kind = "DeltaTextRecord"
    THEN <<r.kind, r.id, r.refcount, r.pred_id>>
    ELSE <<r.kind, r.id, r.refcount>>

\* __setstate__ that does not restore the refcount.
record_setstate_NoRefcount(t) ==
  [kind |-> t[1], id |-> t[2], refcount |-> 0,
   pred_id |-> IF t[1] = "DeltaTextRecord" THEN t[4] ELSE NoId]

\* TextRecord.__setstate__
record_setstate(t) ==
  [kind |-> t[1], id |-> t[2], refcount |-> t[3],
   pred_id |-> IF t[1] = "DeltaTextRecord" THEN t[4] ELSE NoId]

RECURSIVE ValuesOf(_, _)
\* text_records.values(), taken in ascending order of id.
ValuesOf(text_records, ids) ==
  IF ids = {} THEN <<>>
  ELSE LET id == CHOOSE x \in ids : \A y \in ids : x <= y
       IN  <<record_getstate(text_records[id])>> \o ValuesOf(text_records, ids \ {id})

\* TextRecordDatabase.__getstate__
getstate(D) == ValuesOf(D.text_records, DOMAIN D.text_records)

RECURSIVE add_all(_, _, _)
add_all(D, state, i) ==
  IF i > Len(state) THEN D
  ELSE add_all(add(D, record_setstate(state[i])), state, i + 1)

\* __setstate__ that takes the delta_db for an IndexedDatabase.
setstate_Indexed(state) ==
  add_all(TextRecordDatabase(EmptyMap, "IndexedDatabase", EmptyMap, "NullDatabase"),
          state, 1)

\* TextRecordDatabase.__setstate__: the stores are NullDatabases.
setstate(state) ==
  add_all(TextRecordDatabase(EmptyMap, "NullDatabase", EmptyMap, "NullDatabase"),
          state, 1)

----------------------------------------------------------------------------
\* The RCS files the parser reads.

\* The lines the files are made of: a line of plain text, a keyword, a
\* keyword with a value, and a line that looks like one but names no keyword.
Letters == <<"a", "$Revision$", "$State: dead $", "$Foo: 1 $">>

\* The content of trunk revision 1.k of file f as it was committed.
TrunkText(f, k) ==
  [i \in 1..(1 + (k % 3)) |-> Letters[((f + (k \div 2) + i) % 4) + 1]]

RECURSIVE Content(_, _)
\* The content of revision rev of file f as it was committed.
Content(f, rev) ==
  IF is_trunk_revision(rev) THEN TrunkText(f, rev[2])
  ELSE LET base == Content(f, LogicalParent(rev))
       IN  IF rev[Len(rev)] % 2 = 1
             THEN <<"y">> \o base
             ELSE Tail(base) \o <<"z">>

RECURSIVE CommonPrefix(_, _)
CommonPrefix(a, b) ==
  IF a = <<>> \/ b = <<>> \/ Head(a) # Head(b) THEN 0
  ELSE 1 + CommonPrefix(Tail(a), Tail(b))

Reverse(a) == [i \in 1..Len(a) |-> a[Len(a) + 1 - i]]

\* The delta rcs stores for the change from text old to text new.
RcsDiff(old, new) ==
  LET p  == CommonPrefix(old, new)
      s  == CommonPrefix(Reverse(SubSeq(old, p + 1, Len(old))),
                         Reverse(SubSeq(new, p + 1, Len(new))))
      m  == Len(old) - p - s
      ls == SubSeq(new, p + 1, Len(new) - s)
  IN  (IF m > 0 THEN <<DelCmd(p + 1, m)>> ELSE <<>>)
      \o (IF Len(ls) > 0 THEN <<AddCmd(p + m, ls)>> ELSE <<>>)

\* The text of the deltatext block of revision rev: the fulltext for the
\* head, a backward delta on trunk, a forward delta on a branch.
DeltaText(f, revs, rev) ==
  IF rev = HeadOf(revs) THEN Content(f, rev)
  ELSE IF is_trunk_revision(rev)
    THEN RcsDiff(Content(f, <<1, rev[2] + 1>>), Content(f, rev))
    ELSE RcsDiff(Content(f, LogicalParent(rev)), Content(f, rev))

----------------------------------------------------------------------------
\* _Sink: the recorder's side of the parser callbacks.

Sink ==
  [base_revisions |-> EmptyMap,
   head_revision |-> NoRev,
   revision_1_1 |-> NoRev,
   revisions_seen |-> {},
   has_stream |-> FALSE,
   stream |-> <<>>,
   stream_revision |-> NoRev]

\* _Sink.set_head_revision
set_head_revision(S, revision) == [S EXCEPT !.head_revision = revision]

RECURSIVE set_bases(_, _, _)
set_bases(base_revisions, branches, revision) ==
  IF branches = {} THEN base_revisions
  ELSE LET b == CHOOSE x \in branches : TRUE
       IN  set_bases(Put(base_revisions, b, revision), branches \ {b}, revision)

\* _Sink.define_revision
define_revision(S, revision, branches, next) ==
  LET S1 == IF next # NoRev
              THEN [S EXCEPT !.base_revisions = Put(@, next, revision)]
              ELSE IF is_trunk_revision(revision)
                THEN [S EXCEPT !.revision_1_1 = revision]
                ELSE S
  IN  [S1 EXCEPT !.base_revisions = set_bases(@, branches, revision)]

\* InternalRevisionExcluder._writeout
writeout(D, text_record, text) ==
  LET D1 == add(D, text_record)
  IN  IF ~Ok(D1) THEN D1
      ELSE [D1 EXCEPT !.delta_db = Put(@, text_record.id, text)]

\* A trunk record whose pred_id is the id of the head revision.
TrunkDelta_OnHead(S, f, cvs_rev_id) ==
  DeltaTextRecord(original_ids(f, S.stream_revision),
                  original_ids(f, S.head_revision))

\* The record set_revision_info creates for the trunk revision the stream
\* held before revision cvs_rev_id was reached.
TrunkDelta(S, f, cvs_rev_id) ==
  DeltaTextRecord(original_ids(f, S.stream_revision), cvs_rev_id)

\* A branch record whose pred_id is the id of the branch point, for every
\* revision of the branch.
BranchDelta_OnBranchPoint(S, f, revision, cvs_rev_id) ==
  DeltaTextRecord(cvs_rev_id, original_ids(f, SubSeq(revision, 1, 2)))

\* A branch record whose pred_id is the id of the revision itself.
BranchDelta_Self(S, f, revision, cvs_rev_id) ==
  DeltaTextRecord(cvs_rev_id, original_ids(f, revision))

\* The record set_revision_info creates for a branch revision.
BranchDelta(S, f, revision, cvs_rev_id) ==
  DeltaTextRecord(cvs_rev_id, original_ids(f, S.base_revisions[revision]))

\* A handler that logs the malformed delta and goes on.
malformed_delta_Logged(D) == D

\* The except clause of set_revision_info: Log().error(...) and
\* raise RuntimeError().
malformed_delta(D) == Raise(D, "RuntimeError")

\* A sink that takes no revision for seen before.
revision_seen_Never(S, revision) == FALSE

\* revision in self.revisions_seen
revision_seen(S, revision) == revision \in S.revisions_seen

\* _Sink.set_revision_info for file f: the sink and the database afterwards.
set_revision_info(S, D, f, revision, text) ==
  IF revision_seen(S, revision) THEN [S |-> S, D |-> D]
  ELSE
    LET S0 == [S EXCEPT !.revisions_seen = @ \cup {revision}]
        cvs_rev_id == original_ids(f, revision)
    IN
    IF is_trunk_revision(revision)
      THEN
        LET step ==
              IF revision = S0.head_revision
                THEN [S |-> [S0 EXCEPT !.has_stream = TRUE, !.stream = text,
                                       !.stream_revision = revision],
                      D |-> D]
              ELSE IF ~S0.has_stream
                THEN [S |-> S0, D |-> Raise(D, "AttributeError")]
              ELSE IF DiffFails(S0.stream, text)
                THEN [S |-> S0, D |-> malformed_delta(D)]
              ELSE
                LET inv == invert_diff(S0.stream, text)
                IN  [S |-> [S0 EXCEPT !.stream = inv.text,
                                      !.stream_revision = revision],
                     D |-> writeout(D, TrunkDelta(S0, f, cvs_rev_id), inv.inverse)]
        IN  IF ~Ok(step.D) \/ revision # step.S.revision_1_1 THEN step
            ELSE [S |-> [step.S EXCEPT !.has_stream = FALSE, !.stream = <<>>,
                                       !.stream_revision = NoRev],
                  D |-> writeout(step.D, FullTextRecord(cvs_rev_id), step.S.stream)]
      ELSE
        IF revision \notin DOMAIN S0.base_revisions
          THEN [S |-> S0, D |-> Raise(D, "KeyError")]
          ELSE [S |-> S0,
                D |-> writeout(D, BranchDelta(S0, f, revision, cvs_rev_id), text)]

----------------------------------------------------------------------------
\* project.py: verify_paths_disjoint.  A path is a sequence of characters.

\* The characters of a path, in the order of their code points.
Chars == <<"-", "/", "a">>

\* The longest path.
MaxPathLen == 3

\* The arguments of the call in Project.__init__: trunk_path,
\* branches_path, tags_path.
NumPaths == 3

RECURSIVE PathsOfLen(_)
PathsOfLen(n) ==
  IF n = 0 THEN {<<>>}
  ELSE { Append(q, Chars[i]) : q \in PathsOfLen(n - 1), i \in DOMAIN Chars }

Paths == UNION { PathsOfLen(n) : n \in 0..MaxPathLen }

\* ord(c)
Ord(c) == CHOOSE i \in DOMAIN Chars : Chars[i] = c

RECURSIVE StrLess(_, _)
\* s < t for two Python strings
StrLess(s, t) ==
  IF t = <<>> THEN FALSE
  ELSE IF s = <<>> THEN TRUE
  ELSE IF Head(s) # Head(t) THEN Ord(Head(s)) < Ord(Head(t))
  ELSE StrLess(Tail(s), Tail(t))

RECURSIVE ListLess(_, _)
\* x < y for two Python lists of strings
ListLess(x, y) ==
  IF y = <<>> THEN FALSE
  ELSE IF x = <<>> THEN TRUE
  ELSE IF Head(x) # Head(y) THEN StrLess(Head(x), Head(y))
  ELSE ListLess(Tail(x), Tail(y))

RECURSIVE str_split(_, _)
\* path.split('/'), part being the component read so far
str_split(path, part) ==
  IF path = <<>> THEN <<part>>
  ELSE IF Head(path) = "/" THEN <<part>> \o str_split(Tail(path), <<>>)
  ELSE str_split(Tail(path), Append(part, Head(path)))

\* split without the case of the empty path.
split_Always(path) == str_split(path, <<>>)

\* The inner function split of verify_paths_disjoint
split(path) == IF path = <<>> THEN <<>> ELSE str_split(path, <<>>)

\* t1 < t2 for two tuples (split_path, path)
TupleLess(t1, t2) ==
  \/ ListLess(t1[1], t2[1])
  \/ t1[1] = t2[1] /\ StrLess(t1[2], t2[2])

\* The orders of the indices 1..n
IndexOrders(n) ==
  { q \in [1..n -> 1..n] : \A i, j \in 1..n : i # j => q[i] # q[j] }

\* paths.sort() for a list of tuples (split_path, path)
paths_sort(ts) ==
  LET q == CHOOSE o \in IndexOrders(Len(ts)) :
             \A i \in 1..(Len(ts) - 1) : ~TupleLess(ts[o[i + 1]], ts[o[i]])
  IN  [i \in 1..Len(ts) |-> ts[q[i]]]

\* verify_paths_disjoint(*paths): whether it raises FatalError
verify_paths_disjoint(paths) ==
  LET ts == paths_sort([i \in 1..Len(paths) |-> <<split(paths[i]), paths[i]>>])
  IN  \E i \in 2..Len(ts) :
        LET split_path1 == ts[i - 1][1]
            split_path2 == ts[i][1]
        IN  /\ Len(split_path1) <= Len(split_path2)
            /\ SubSeq(split_path2, 1, Len(split_path1)) = split_path1

----------------------------------------------------------------------------
\* The conversion: CollectRevsPass, FilterSymbolsPass, OutputPass.

VARIABLES
  repo,               \* the RCS files: repo[f] is the revision tree of file f
  pc,                 \* "collect", "filter", "start", "output", "done", "failed"
  cur,                \* the file the collect or filter pass is at
  stage,              \* where process_file is: "begin", "admin", "tree", "texts"
  defined,            \* revisions define_revision was called for
  delivered,          \* revisions set_revision_info was called for
  sink,               \* the _Sink of the file being parsed
  text_record_db,     \* the live TextRecordDatabase
  rcs_deltas,         \* DeltaStore: cvs_rev_id -> fulltext or delta
  co_db,              \* CheckoutStore: '%x' % cvs_rev_id -> fulltext
  rcs_trees,          \* TreeStore written by the collect pass
  rcs_trees_filtered, \* TreeStore written by the filter pass
  cvs_file_items,     \* per file, the revisions that are CVSRevisionModifications
  loaded_files,       \* InternalRevisionReader._loaded_files
  requested,          \* the <<file, revision>> pairs requested or skipped so far
  last,               \* the last get_content_stream / skip_content call
  err,                \* the exception that ended the run, or "none"
  applied,            \* per record, how often apply_diff ran for its delta
  recomputed,         \* the records before and after the last recompute_refcounts
  leftovers,          \* whether log_leftovers has warned
  duplicate,          \* whether the last deltatext block repeated an earlier one
  paths,              \* trunk_path, branches_path, tags_path of the Project
  fatal               \* "none", or how Project.__init__ ended: "ok", "FatalError"

vars ==
  <<repo, pc, cur, stage, defined, delivered, sink, text_record_db, rcs_deltas,
    co_db, rcs_trees, rcs_trees_filtered, cvs_file_items, loaded_files,
    requested, last, err, applied, recomputed, leftovers, duplicate, paths,
    fatal>>

RECURSIVE RepoSize(_, _)
RepoSize(r, n) == IF n = 0 THEN 0 ELSE Cardinality(r[n]) + RepoSize(r, n - 1)

Repos ==
  { r \in UNION { [1..n -> FileShapes] : n \in Files } :
      RepoSize(r, Len(r)) <= MaxRevs }

NoDb ==
  [text_records |-> EmptyMap, deferred_deletes |-> NoList,
   delta_kind |-> "NullDatabase", checkout_kind |-> "NullDatabase"]

\* The live database together with the stores it refers to.
Bundle ==
  [text_records |-> text_record_db.text_records,
   delta_db |-> rcs_deltas, delta_kind |-> text_record_db.delta_kind,
   checkout_db |-> co_db, checkout_kind |-> text_record_db.checkout_kind,
   deferred_deletes |-> text_record_db.deferred_deletes,
   err |-> "none",
   applied |-> applied,
   depth |-> 0,
   maxdepth |-> 0,
   cascade |-> NoCascade]

DbOf(D) ==
  [text_records |-> D.text_records, deferred_deletes |-> D.deferred_deletes,
   delta_kind |-> D.delta_kind, checkout_kind |-> D.checkout_kind]

Ids(f, revs) == { original_ids(f, r) : r \in revs }

NotRecomputed ==
  [pass |-> "none", file |-> 0, before |-> EmptyMap, after |-> EmptyMap,
   wanted |-> {}, pruned |-> EmptyMap, depth |-> 0, cascade |-> NoCascade]

NoCall ==
  [op |-> "none", file |-> 0, id |-> NoId, text |-> <<>>, depth |-> 0,
   ids |-> <<>>, mode |-> "", suppress |-> FALSE, stream |-> <<>>,
   cascade |-> NoCascade]

Init ==
  /\ repo \in Repos
  /\ pc = "collect"
  /\ cur = 1
  /\ stage = "begin"
  /\ defined = {}
  /\ delivered = {}
  /\ sink = Sink
  /\ text_record_db = NoDb
  /\ rcs_deltas = EmptyMap
  /\ co_db = EmptyMap
  /\ rcs_trees = EmptyMap
  /\ rcs_trees_filtered = EmptyMap
  /\ cvs_file_items = EmptyMap
  /\ loaded_files = {}
  /\ requested = {}
  /\ last = NoCall
  /\ err = "none"
  /\ applied = EmptyMap
  /\ recomputed = NotRecomputed
  /\ leftovers = FALSE
  /\ duplicate = FALSE
  /\ paths = <<>>
  /\ fatal = "none"

\* InternalRevisionExcluder.process_file up to the call of the parser.
ProcessFileBegin ==
  /\ duplicate' = FALSE
  /\ pc = "collect" /\ stage = "begin"
  /\ text_record_db' =
       DbOf(TextRecordDatabase(rcs_deltas, "IndexedDatabase", EmptyMap, "NullDatabase"))
  /\ sink' = Sink
  /\ stage' = "admin"
  /\ defined' = {}
  /\ delivered' = {}
  /\ UNCHANGED <<paths, fatal>>
  /\ UNCHANGED <<repo, pc, cur, rcs_deltas, co_db, rcs_trees, rcs_trees_filtered,
                 cvs_file_items, loaded_files, requested, last, err, applied,
                 recomputed, leftovers>>

\* The parser calls set_head_revision.
SetHeadRevision ==
  /\ pc = "collect" /\ stage = "admin"
  /\ sink' = set_head_revision(sink, HeadOf(repo[cur]))
  /\ stage' = "tree"
  /\ UNCHANGED <<paths, fatal>>
  /\ UNCHANGED <<duplicate, repo, pc, cur, defined, delivered, text_record_db, rcs_deltas,
                 co_db, rcs_trees, rcs_trees_filtered, cvs_file_items,
                 loaded_files, requested, last, err, applied, recomputed,
                 leftovers>>

\* The place of a revision in the delta tree section of the RCS file: the
\* trunk from the head down, then the branches.
DefRank(rev) == IF is_trunk_revision(rev) THEN 0 - rev[2] ELSE Enc(rev)

\* The parser calls define_revision for the next revision of the file.
DefineRevision ==
  /\ pc = "collect" /\ stage = "tree"
  /\ \E rev \in repo[cur] \ defined :
       /\ \A q \in repo[cur] \ defined : DefRank(rev) <= DefRank(q)
       /\ sink' = define_revision(sink, rev, BranchesOf(repo[cur], rev),
                                  NextOf(repo[cur], rev))
       /\ defined' = defined \cup {rev}
       /\ stage' = IF defined' = repo[cur] THEN "texts" ELSE "tree"
  /\ UNCHANGED <<paths, fatal>>
  /\ UNCHANGED <<duplicate, repo, pc, cur, delivered, text_record_db, rcs_deltas, co_db,
                 rcs_trees, rcs_trees_filtered, cvs_file_items, loaded_files,
                 requested, last, err, applied, recomputed, leftovers>>

\* The revisions whose deltatext block can come next: trunk head first,
\* branches in forward order, or a block that repeats an earlier one.
Deliverable(revs, done) ==
  { r \in revs :
      \/ r \in done
      \/ /\ is_trunk_revision(r)
         /\ r = HeadOf(revs) \/ <<1, r[2] + 1>> \in done
      \/ /\ ~is_trunk_revision(r)
         /\ r[Len(r)] = 1 \/ LogicalParent(r) \in done }

\* The texts the block of rev can hold: what rcs wrote, or, for a trunk
\* delta, something that is no delta.
BlockTexts(f, revs, rev) ==
  {DeltaText(f, revs, rev)}
    \cup (IF is_trunk_revision(rev) /\ rev # HeadOf(revs) THEN {Malformed} ELSE {})

\* The parser calls set_revision_info.
SetRevisionInfo ==
  /\ pc = "collect" /\ stage = "texts"
  /\ \E rev \in Deliverable(repo[cur], delivered) :
     \E text \in BlockTexts(cur, repo[cur], rev) :
       LET r == set_revision_info(sink, Bundle, cur, rev, text)
       IN  /\ sink' = r.S
           /\ text_record_db' = DbOf(r.D)
           /\ rcs_deltas' = r.D.delta_db
           /\ err' = r.D.err
           /\ pc' = IF Ok(r.D) THEN pc ELSE "failed"
           /\ delivered' = delivered \cup {rev}
           /\ duplicate' = (rev \in delivered)
  /\ UNCHANGED <<paths, fatal>>
  /\ UNCHANGED <<repo, cur, stage, defined, co_db, rcs_trees, rcs_trees_filtered,
                 cvs_file_items, loaded_files, requested, last, applied,
                 recomputed, leftovers>>

\* InternalRevisionExcluder.process_file after the parser has returned.
ProcessFileEnd ==
  /\ duplicate' = FALSE
  /\ pc = "collect" /\ stage = "texts" /\ delivered = repo[cur]
  /\ \E mods \in SUBSET repo[cur] :
       LET ids == Ids(cur, mods)
           D1  == recompute_refcounts(Bundle, ids)
       IN  \E order \in Orders(Unused(D1)) :
             LET D2 == free_unused(D1, order)
             IN  /\ recomputed' = [pass |-> "collect", file |-> cur,
                                   before |-> Bundle.text_records,
                                   after |-> D1.text_records, wanted |-> ids,
                                   pruned |-> D2.text_records,
                                   depth |-> D2.maxdepth,
                                   cascade |-> D2.cascade]
                 /\ rcs_deltas' = D2.delta_db
                 /\ err' = D2.err
                 /\ cvs_file_items' = Put(cvs_file_items, cur, mods)
                 /\ IF Ok(D2)
                      THEN /\ rcs_trees' = Put(rcs_trees, cur, getstate(D2))
                           /\ text_record_db' = NoDb
                           /\ pc' = IF cur = Len(repo) THEN "filter" ELSE "collect"
                           /\ cur' = IF cur = Len(repo) THEN 1 ELSE cur + 1
                      ELSE /\ rcs_trees' = rcs_trees
                           /\ text_record_db' = DbOf(D2)
                           /\ pc' = "failed"
                           /\ cur' = cur
  /\ stage' = "begin"
  /\ UNCHANGED <<paths, fatal>>
  /\ UNCHANGED <<repo, defined, delivered, sink, co_db, rcs_trees_filtered,
                 loaded_files, requested, last, applied, leftovers>>

\* The filter pass on the file cur: load the snapshot, recompute the
\* refcounts for the pruned cvs_file_items, free the unused records and
\* store the result in the filtered tree store.  delta_db of the bundle is
\* the content of the DeltaStore; the loaded database refers to it only as
\* far as its delta_kind says.
FilterFile ==
  /\ pc = "filter"
  /\ \E mods \in SUBSET cvs_file_items[cur] :
       LET ids == Ids(cur, mods)
           D0  == [setstate(rcs_trees[cur]) EXCEPT !.delta_db = rcs_deltas]
           D1  == recompute_refcounts(D0, ids)
       IN  \E order \in Orders(Unused(D1)) :
             LET D2 == free_unused(D1, order)
             IN  /\ recomputed' = [pass |-> "filter", file |-> cur,
                                   before |-> D0.text_records,
                                   after |-> D1.text_records, wanted |-> ids,
                                   pruned |-> D2.text_records,
                                   depth |-> D2.maxdepth,
                                   cascade |-> D2.cascade]
                 /\ rcs_deltas' = D2.delta_db
                 /\ err' = D2.err
                 /\ cvs_file_items' = Put(cvs_file_items, cur, mods)
                 /\ IF Ok(D2)
                      THEN /\ rcs_trees_filtered' =
                                Put(rcs_trees_filtered, cur, getstate(D2))
                           /\ pc' = IF cur = Len(repo) THEN "start" ELSE "filter"
                           /\ cur' = IF cur = Len(repo) THEN 1 ELSE cur + 1
                      ELSE /\ rcs_trees_filtered' = rcs_trees_filtered
                           /\ pc' = "failed"
                           /\ cur' = cur
  /\ UNCHANGED <<paths, fatal>>
  /\ UNCHANGED <<duplicate, repo, stage, defined, delivered, sink, text_record_db,
                 co_db, rcs_trees, loaded_files, requested, last, applied,
                 leftovers>>

\* InternalRevisionReader.start
Start ==
  /\ pc = "start"
  /\ co_db' = EmptyMap
  /\ loaded_files' = {}
  /\ text_record_db' =
       DbOf(TextRecordDatabase(rcs_deltas, "disabled", EmptyMap, "Database"))
  /\ pc' = "output"
  /\ UNCHANGED <<paths, fatal>>
  /\ UNCHANGED <<duplicate, repo, cur, stage, defined, delivered, sink, rcs_deltas,
                 rcs_trees, rcs_trees_filtered, cvs_file_items, requested, last,
                 err, applied, recomputed, leftovers>>

\* InternalRevisionReader._get_text_record up to the return: the records of
\* file f are added to the database unless f was loaded before.
get_text_record(D, f) ==
  IF f \in loaded_files THEN D
  ELSE add_all(D, rcs_trees_filtered[f], 1)

\* The revisions the consumer may still ask for.
Requestable ==
  { p \in (DOMAIN repo) \X AllRevs :
      /\ p[2] \in cvs_file_items[p[1]]
      /\ p \notin requested }

\* cvs_rev.rev as the string the keyword Revision expands to.
RevString(rev) ==
  LET RECURSIVE Join(_)
      Join(i) == IF i = 1 THEN ToString(rev[1])
                 ELSE Join(i - 1) \o "." \o ToString(rev[i])
  IN  Join(Len(rev))

\* _kw_re on one line: the keyword of a line that is a keyword with a
\* value, "" for any other line.
kw_re(line) ==
  CASE line = "$State: dead $" -> "State"
    [] OTHER -> ""

\* _kwo_re on one line: the keyword of a line that is a keyword with or
\* without a value, "" for any other line.
kwo_re(line) ==
  CASE line = "$Revision$" -> "Revision"
    [] line = "$State: dead $" -> "State"
    [] OTHER -> ""

\* _KeywordExpander(cvs_rev).__call__ for the keywords Revision and State
KeywordExpander(rev, keyword) ==
  "$" \o keyword \o ": "
      \o (IF keyword = "Revision" THEN RevString(rev) ELSE "Exp") \o " $"

\* Keywords are unexpanded for mode 'k' only, whatever the flag says.
unexpands_ModeOnly(mode, suppress) == mode = "k"

\* suppress_keyword_substitution or cvs_rev.cvs_file.mode == 'k'
unexpands(mode, suppress) == suppress \/ mode = "k"

\* The keyword handling of get_content_stream for revision rev.
keyword_handling(mode, suppress, rev, text) ==
  IF mode = "b" \/ mode = "o" THEN text
  ELSE IF unexpands(mode, suppress)
    THEN [i \in DOMAIN text |->
            IF kw_re(text[i]) # "" THEN "$" \o kw_re(text[i]) \o "$" ELSE text[i]]
    ELSE [i \in DOMAIN text |->
            IF kwo_re(text[i]) # "" THEN KeywordExpander(rev, kwo_re(text[i]))
            ELSE text[i]]

\* cvs_file.mode of the files of the repository
Modes == {"b", "o", "k", "kv"}

\* InternalRevisionReader.get_content_stream for a file whose mode is one of
\* modes, with suppress_keyword_substitution one of flags.
get_content_stream(modes, flags) ==
  /\ pc = "output"
  /\ \E p \in Requestable : \E mode \in modes : \E suppress \in flags :
       LET f  == p[1]
           id == original_ids(f, p[2])
           r  == checkout(get_text_record(Bundle, f), id)
       IN  /\ text_record_db' = DbOf(r.D)
           /\ rcs_deltas' = r.D.delta_db
           /\ co_db' = r.D.checkout_db
           /\ applied' = r.D.applied
           /\ err' = r.D.err
           /\ pc' = IF Ok(r.D) THEN pc ELSE "failed"
           /\ loaded_files' = loaded_files \cup {f}
           /\ requested' = requested \cup {p}
           /\ last' = [op |-> "get_content_stream", file |-> f, id |-> id,
                      text |-> r.text, depth |-> r.D.maxdepth, ids |-> <<>>,
                      cascade |-> r.D.cascade,
                      mode |-> mode, suppress |-> suppress,
                      stream |-> IF Ok(r.D)
                                   THEN keyword_handling(mode, suppress, p[2], r.text)
                                   ELSE <<>>]
  /\ UNCHANGED <<paths, fatal>>
  /\ UNCHANGED <<duplicate, repo, cur, stage, defined, delivered, sink, rcs_trees,
                 rcs_trees_filtered, cvs_file_items, recomputed, leftovers>>

\* get_content_stream for the files of mode 'b' of the conversion Spec.
GetContentStream == get_content_stream({"b"}, {FALSE})

\* get_content_stream for files of any mode, with and without
\* suppress_keyword_substitution.
GetContentStreamAnyMode == get_content_stream(Modes, BOOLEAN)

\* InternalRevisionReader.skip_content
SkipContent ==
  /\ pc = "output"
  /\ \E p \in Requestable :
       LET f  == p[1]
           id == original_ids(f, p[2])
           D0 == get_text_record(Bundle, f)
           D1 == IF ~Ok(D0) THEN D0
                 ELSE IF id \notin DOMAIN D0.text_records
                   THEN Raise(D0, "KeyError")
                   ELSE decrement_refcount(D0, id)
       IN  /\ text_record_db' = DbOf(D1)
           /\ rcs_deltas' = D1.delta_db
           /\ co_db' = D1.checkout_db
           /\ applied' = D1.applied
           /\ err' = D1.err
           /\ pc' = IF Ok(D1) THEN pc ELSE "failed"
           /\ loaded_files' = loaded_files \cup {f}
           /\ requested' = requested \cup {p}
           /\ last' = [op |-> "skip_content", file |-> f, id |-> id,
                      text |-> <<>>, depth |-> D1.maxdepth, ids |-> <<>>,
                      cascade |-> D1.cascade,
                      mode |-> "", suppress |-> FALSE, stream |-> <<>>]
  /\ UNCHANGED <<paths, fatal>>
  /\ UNCHANGED <<duplicate, repo, cur, stage, defined, delivered, sink, rcs_trees,
                 rcs_trees_filtered, cvs_file_items, recomputed, leftovers>>

\* log_leftovers that never writes the warning.
log_leftovers_Silent(D) == FALSE

\* TextRecordDatabase.log_leftovers: whether the warning is written.
log_leftovers(D) == DOMAIN D.text_records # {}

\* InternalRevisionReader.finish
Finish ==
  /\ pc = "output"
  /\ leftovers' = log_leftovers(Bundle)
  /\ pc' = "done"
  /\ UNCHANGED <<paths, fatal>>
  /\ UNCHANGED <<duplicate, repo, cur, stage, defined, delivered, sink, text_record_db,
                 rcs_deltas, co_db, rcs_trees, rcs_trees_filtered,
                 cvs_file_items, loaded_files, requested, last, err, applied,
                 recomputed>>

Next ==
  \/ ProcessFileBegin
  \/ SetHeadRevision
  \/ DefineRevision
  \/ SetRevisionInfo
  \/ ProcessFileEnd
  \/ FilterFile
  \/ Start
  \/ GetContentStream
  \/ SkipContent
  \/ Finish

Spec == Init /\ [][Next]_vars

----------------------------------------------------------------------------
\* A client of TextRecordDatabase: after the parser has delivered a file,
\* recompute_refcounts is called for some cvs_file_items and then discard is
\* called with any ids, also after a call that raised.

\* The longest deferred_deletes a raising call may leave before the client
\* stops calling.
MaxDeferred == 1

\* text_record_db.recompute_refcounts(cvs_file_items)
RecomputeCall ==
  /\ pc = "collect" /\ stage = "texts" /\ delivered = repo[cur] /\ err = "none"
  /\ \E mods \in SUBSET repo[cur] :
       LET D1 == recompute_refcounts(Bundle, Ids(cur, mods))
       IN  /\ text_record_db' = DbOf(D1)
           /\ err' = D1.err
           /\ cvs_file_items' = Put(cvs_file_items, cur, mods)
  /\ stage' = "api"
  /\ UNCHANGED <<paths, fatal>>
  /\ UNCHANGED <<duplicate, repo, pc, cur, defined, delivered, sink, rcs_deltas,
                 co_db, rcs_trees, rcs_trees_filtered, loaded_files, requested,
                 last, applied, recomputed, leftovers>>

\* The argument lists of the client's discard calls.
DiscardArgs ==
  LET ids == Ids(cur, repo[cur])
  IN  { <<a>> : a \in ids } \cup { <<a, b>> : a, b \in ids }

\* The client works on a repository of one file.
InitDb == Init /\ Len(repo) = 1

\* text_record_db.discard(*ids)
DiscardCall ==
  /\ pc = "collect" /\ stage = "api"
  /\ \/ text_record_db.deferred_deletes = NoList
     \/ Len(text_record_db.deferred_deletes) < MaxDeferred
  /\ \E ids \in DiscardArgs :
       LET D1 == discard(Bundle, ids)
       IN  /\ text_record_db' = DbOf(D1)
           /\ rcs_deltas' = D1.delta_db
           /\ co_db' = D1.checkout_db
           /\ err' = D1.err
           /\ last' = [op |-> "discard", file |-> cur, id |-> NoId,
                       text |-> <<>>, depth |-> D1.maxdepth, ids |-> ids,
                       cascade |-> D1.cascade,
                       mode |-> "", suppress |-> FALSE, stream |-> <<>>]
  /\ UNCHANGED <<paths, fatal>>
  /\ UNCHANGED <<duplicate, repo, pc, cur, stage, defined, delivered, sink,
                 rcs_trees, rcs_trees_filtered, cvs_file_items, loaded_files,
                 requested, applied, recomputed, leftovers>>

NextDb ==
  \/ ProcessFileBegin
  \/ SetHeadRevision
  \/ DefineRevision
  \/ SetRevisionInfo
  \/ RecomputeCall
  \/ DiscardCall

DbSpec == InitDb /\ [][NextDb]_vars

----------------------------------------------------------------------------
\* The conversion of one file of any mode.

NextKw ==
  \/ ProcessFileBegin
  \/ SetHeadRevision
  \/ DefineRevision
  \/ SetRevisionInfo
  \/ ProcessFileEnd
  \/ FilterFile
  \/ Start
  \/ GetContentStreamAnyMode
  \/ SkipContent
  \/ Finish

\* The largest number of revisions of the file under KwSpec.
MaxKwRevs == 3

InitKw == InitDb /\ RepoSize(repo, Len(repo)) <= MaxKwRevs

KwSpec == InitKw /\ [][NextKw]_vars

----------------------------------------------------------------------------
\* The set-up of a Project.

\* Project.__init__ when the conversion is not trunk-only: the three paths
\* are checked by verify_paths_disjoint.
ProjectInit ==
  /\ fatal = "none"
  /\ \E args \in [1..NumPaths -> Paths] :
       /\ paths' = args
       /\ fatal' = IF verify_paths_disjoint(args) THEN "FatalError" ELSE "ok"
  /\ UNCHANGED <<repo, pc, cur, stage, defined, delivered, sink, text_record_db,
                 rcs_deltas, co_db, rcs_trees, rcs_trees_filtered,
                 cvs_file_items, loaded_files, requested, last, err, applied,
                 recomputed, leftovers, duplicate>>

\* No conversion is at work: the repository is one file of one revision.
InitProject == Init /\ repo = <<{<<1, 1>>}>>

NextProject == ProjectInit

ProjectSpec == InitProject /\ [][NextProject]_vars

----------------------------------------------------------------------------
\* Notions the properties below are stated with.

\* Every content-bearing revision of the filtered view was requested or
\* skipped.
AllRequested ==
  \A f \in DOMAIN repo : \A r \in cvs_file_items[f] : <<f, r>> \in requested

InOutputPass == pc \in {"output", "done"}

\* The records of file f as the filter pass stored them.
Snapshot(f) == setstate(rcs_trees_filtered[f]).text_records

\* The Delta records of map M whose pred_id is id.
Dependents(M, id) ==
  { d \in DOMAIN M : M[d].kind = "DeltaTextRecord" /\ M[d].pred_id = id }

RECURSIVE RefText(_, _)
\* The fulltext of record id of the stored records M: the stored deltas
\* applied along the pred_id chain from the FullText root.
RefText(M, id) ==
  IF M[id].kind = "FullTextRecord" THEN rcs_deltas[id]
  ELSE apply_diff(RefText(M, M[id].pred_id), rcs_deltas[id])

RECURSIVE ReachesFullText(_, _, _)
\* Following pred_id from id in M ends at a FullText record and meets no
\* record twice.
ReachesFullText(M, id, visited) ==
  /\ id \in DOMAIN M
  /\ id \notin visited
  /\ \/ M[id].kind = "FullTextRecord"
     \/ /\ M[id].kind = "DeltaTextRecord"
        /\ M[id].pred_id # id
        /\ ReachesFullText(M, M[id].pred_id, visited \cup {id})

Forest(M) == \A id \in DOMAIN M : ReachesFullText(M, id, {})

RECURSIVE Closure(_, _)
\* The ids reachable from the set S by following pred_id in M.
Closure(M, S) ==
  LET more == { M[id].pred_id :
                  id \in { x \in S \cap DOMAIN M : M[x].kind = "DeltaTextRecord" } }
  IN  IF more \subseteq S THEN S ELSE Closure(M, S \cup more)

\* The filter pass has just pruned a file.
Pruned == recomputed.pass # "none" /\ err = "none"

----------------------------------------------------------------------------
\* C1: when every content-bearing revision has been requested once, by
\* get_content_stream or skip_content in any order, the TextRecordDatabase
\* holds no record, and finish() logs no leftovers.
C1_FullConsumptionEmptiesDatabase ==
  (InOutputPass /\ AllRequested) =>
    /\ DOMAIN text_record_db.text_records = {}
    /\ ~leftovers

\* The output pass has finished after requests for three or more revisions
\* of two files, all that were wanted.
C1_Witness ==
  /\ pc = "done" /\ AllRequested
  /\ Cardinality(requested) >= 3
  /\ Cardinality(loaded_files) = 2

\* C2: the text get_content_stream returns for a revision is the text that
\* the stored deltas give when applied along the pred_id chain from the
\* FullText root, whatever was requested or skipped before.
C2_CheckoutEqualsReference ==
  (last.op = "get_content_stream" /\ err = "none") =>
    last.text = RefText(Snapshot(last.file), last.id)

\* The revision just checked out is a Delta with a dependent that had been
\* requested before it, so its text came from the CheckoutStore.
C2_Witness ==
  /\ last.op = "get_content_stream" /\ err = "none"
  /\ Snapshot(last.file)[last.id].kind = "DeltaTextRecord"
  /\ \E p \in requested :
       original_ids(p[1], p[2]) \in Dependents(Snapshot(last.file), last.id)

\* C3: with each revision requested at most once, no get_content_stream or
\* skip_content call fails on a record or a fulltext that is missing.
C3_NothingNeededIsMissing ==
  last.op # "none" => err = "none"

\* Three revisions have been requested while a fulltext is kept in the
\* CheckoutStore.
C3_Witness ==
  /\ pc = "output" /\ err = "none"
  /\ Cardinality(requested) >= 3
  /\ DOMAIN co_db # {}

\* C4: when every content-bearing revision has been requested once, the
\* CheckoutStore is empty.
C4_NoCacheLeak ==
  (InOutputPass /\ AllRequested) => DOMAIN co_db = {}

\* Everything was requested, and the last request was for a Delta whose
\* dependent had been checked out before: its fulltext was in the
\* CheckoutStore until this request.
C4_Witness ==
  /\ pc = "output" /\ AllRequested /\ DOMAIN co_db = {}
  /\ last.op = "get_content_stream"
  /\ Snapshot(last.file)[last.id].kind = "DeltaTextRecord"
  /\ Dependents(Snapshot(last.file), last.id) # {}

\* How often apply_diff ran for the delta of record id.
Applied(id) == IF id \in DOMAIN applied THEN applied[id] ELSE 0

\* The Delta records of the files loaded in the output pass.
LoadedDeltas ==
  UNION { { id \in DOMAIN Snapshot(f) : Snapshot(f)[id].kind = "DeltaTextRecord" } :
            f \in loaded_files }

\* C5 as stated: after every content-bearing revision has been requested
\* once, the delta of every loaded Delta record was applied exactly once.
C5_EachDeltaAppliedOnce ==
  (InOutputPass /\ AllRequested) => \A id \in LoadedDeltas : Applied(id) = 1

RECURSIVE Chain(_, _)
\* Record id of M and the records it depends on, directly or indirectly.
Chain(M, id) ==
  IF M[id].kind = "DeltaTextRecord" THEN {id} \cup Chain(M, M[id].pred_id) ELSE {id}

\* C5 as amended: no delta is applied twice, and when get_content_stream
\* has returned a revision, the deltas of the Delta records on its pred_id
\* chain have each been applied exactly once.
C5_DeltaAppliedAtMostOnce ==
  /\ \A id \in DOMAIN applied : applied[id] <= 1
  /\ (last.op = "get_content_stream" /\ err = "none") =>
       \A id \in Chain(Snapshot(last.file), last.id) :
         Snapshot(last.file)[id].kind = "DeltaTextRecord" => Applied(id) = 1

\* get_content_stream has returned a revision that is two deltas away from
\* its FullText root, after another revision of the file had been asked for.
C5_Witness ==
  /\ last.op = "get_content_stream" /\ err = "none"
  /\ Cardinality(Chain(Snapshot(last.file), last.id)) >= 3
  /\ Cardinality(requested) >= 2

\* C6: after recompute_refcounts and free_unused every record still in the
\* database has a refcount above zero.
C6_SurvivorsHaveRefcount ==
  Pruned => \A id \in DOMAIN recomputed.pruned : recomputed.pruned[id].refcount > 0

\* The filter pass has removed records of a file and kept others.
C6_Witness ==
  /\ Pruned /\ recomputed.pass = "filter"
  /\ DOMAIN recomputed.pruned # {}
  /\ DOMAIN recomputed.pruned # DOMAIN recomputed.before

\* C7: the predecessor of every Delta record that survives
\* recompute_refcounts and free_unused is still in the database.
C7_SurvivorsKeepPredecessor ==
  Pruned =>
    \A id \in DOMAIN recomputed.pruned :
      recomputed.pruned[id].kind = "DeltaTextRecord" =>
        recomputed.pruned[id].pred_id \in DOMAIN recomputed.pruned

\* A Delta record has survived a pruning that removed other records.
C7_Witness ==
  /\ Pruned
  /\ \E id \in DOMAIN recomputed.pruned :
       recomputed.pruned[id].kind = "DeltaTextRecord"
  /\ DOMAIN recomputed.pruned # DOMAIN recomputed.before

\* The parser has delivered every deltatext block of the file.
AllDelivered ==
  pc = "collect" /\ stage = "texts" /\ delivered = repo[cur] /\ err = "none"

\* C8: the records the recorder emits for a file form a forest over
\* pred_id (no Delta is its own predecessor, every pred_id names an emitted
\* record, every chain ends at a FullText record and meets no record twice),
\* and so do the records that survive free_unused.
C8_RecordsFormForest ==
  /\ AllDelivered => Forest(text_record_db.text_records)
  /\ Pruned => Forest(recomputed.pruned)

\* The recorder has emitted the records of a file with a branch and two
\* trunk revisions or more.
C8_Witness ==
  /\ AllDelivered
  /\ Cardinality(TrunkOf(repo[cur])) >= 2
  /\ repo[cur] # TrunkOf(repo[cur])
  /\ Cardinality(DOMAIN text_record_db.text_records) = Cardinality(repo[cur])

\* C9: after recompute_refcounts the refcount of each record is the number
\* of Delta records whose pred_id it is, plus one if cvs_file_items holds a
\* content-bearing revision with its id.
C9_RecomputedRefcounts ==
  recomputed.pass # "none" =>
    \A id \in DOMAIN recomputed.after :
      recomputed.after[id].refcount =
        Cardinality(Dependents(recomputed.after, id))
          + (IF id \in recomputed.wanted THEN 1 ELSE 0)

\* The filter pass has recomputed refcounts that differ from the ones the
\* collect pass stored, one of them two or more.
C9_Witness ==
  /\ recomputed.pass = "filter"
  /\ \E id \in DOMAIN recomputed.after :
       /\ recomputed.after[id].refcount # recomputed.before[id].refcount
       /\ recomputed.before[id].refcount > 0
  /\ \E id \in DOMAIN recomputed.after : recomputed.after[id].refcount >= 2

\* C10: the records that survive recompute_refcounts and free_unused are
\* the wanted records and those reachable from them by pred_id, no more and
\* no fewer.
C10_SurvivorsAreTheNeeded ==
  Pruned =>
    DOMAIN recomputed.pruned = Closure(recomputed.before, recomputed.wanted)

\* A pruning has kept an unwanted record that a wanted one depends on and
\* has removed another record.
C10_Witness ==
  /\ Pruned
  /\ \E id \in DOMAIN recomputed.pruned : id \notin recomputed.wanted
  /\ DOMAIN recomputed.pruned # DOMAIN recomputed.before

\* C11: however long the chain of Delta records that a discard removes, no
\* more calls of discard, free and decrement_refcount are active at once
\* than discard -> free -> decrement_refcount -> discard (one more when the
\* first discard is itself called from decrement_refcount), and when no
\* revision of the file is wanted the cascade removes every record.
C11_CascadeDepthBounded ==
  /\ recomputed.depth <= 4
  /\ last.depth <= 5
  /\ (Pruned /\ recomputed.wanted = {}) => DOMAIN recomputed.pruned = {}

\* free_unused has removed a chain of three records or more, none of them
\* wanted, the nested discard having been called from decrement_refcount.
C11_Witness ==
  /\ Pruned /\ recomputed.wanted = {}
  /\ \E id \in DOMAIN recomputed.before :
       Cardinality(Chain(recomputed.before, id)) >= 3
  /\ DOMAIN recomputed.pruned = {}
  /\ recomputed.depth = 4

\* C12: no get_content_stream or skip_content call of the output pass adds,
\* changes or removes a DeltaStore entry, and none of them raises: the
\* deletes that FullTextRecord.free and DeltaTextRecord.free ask for are
\* dropped.
C12_OutputLeavesDeltaStore ==
  [][pc = "output" => (rcs_deltas' = rcs_deltas /\ err' = "none")]_vars

\* A call of the output pass has discarded a FullText or Delta record, whose
\* free asked for the delete of an entry the DeltaStore still holds.
C12_Witness ==
  /\ pc = "output" /\ last.op # "none" /\ err = "none"
  /\ \E id \in DOMAIN Snapshot(last.file) :
       /\ id \notin DOMAIN text_record_db.text_records
       /\ id \notin DOMAIN applied
       /\ id \in DOMAIN rcs_deltas
  /\ last.depth >= 4

\* The filter pass has pruned file f, which has the revisions 1.1 and
\* 1.1.2.1 and had a record for each, with 1.1.2.1 excluded and 1.1 kept.
BranchExcluded(f) ==
  /\ Pruned /\ recomputed.pass = "filter" /\ recomputed.file = f
  /\ repo[f] = {<<1, 1>>, <<1, 1, 2, 1>>}
  /\ DOMAIN recomputed.before = Ids(f, repo[f])
  /\ recomputed.wanted = {original_ids(f, <<1, 1>>)}

C14_DeltaStoreHoldsSurvivors ==
  /\ (Pruned /\ recomputed.pass = "collect") =>
       DOMAIN rcs_deltas \cap Ids(recomputed.file, repo[recomputed.file])
         = DOMAIN recomputed.pruned
  /\ \A f \in DOMAIN rcs_trees :
       DOMAIN rcs_deltas \cap Ids(f, repo[f]) = DOMAIN setstate(rcs_trees[f]).text_records

\* process_file has finished a file of which a cascade removed a record and
\* its predecessor and another record survived.
C14_Witness ==
  /\ Pruned /\ recomputed.pass = "collect"
  /\ recomputed.file \in DOMAIN rcs_trees
  /\ DOMAIN recomputed.pruned # {}
  /\ Cardinality(DOMAIN recomputed.before \ DOMAIN recomputed.pruned) >= 2
  /\ recomputed.depth = 4

\* C15: when the parser has delivered the deltatext blocks of a file, the
\* trunk from the head down, there is one record for each revision; the
\* record of 1.1 is a FullText whose DeltaStore entry is the content of 1.1,
\* and the record of every other trunk revision 1.k is a Delta with the id
\* of 1.k and the pred_id of 1.(k-1) whose DeltaStore entry is a delta that
\* turns the content of 1.(k-1) into the content of 1.k.
C15_TrunkInversion ==
  AllDelivered =>
    /\ DOMAIN text_record_db.text_records = Ids(cur, repo[cur])
    /\ DOMAIN rcs_deltas \cap Ids(cur, repo[cur]) = Ids(cur, repo[cur])
    /\ \A rev \in TrunkOf(repo[cur]) :
         LET id   == original_ids(cur, rev)
             prev == <<1, rev[2] - 1>>
         IN  IF rev = <<1, 1>>
               THEN /\ text_record_db.text_records[id] = FullTextRecord(id)
                    /\ rcs_deltas[id] = Content(cur, rev)
               ELSE /\ text_record_db.text_records[id] =
                         DeltaTextRecord(id, original_ids(cur, prev))
                    /\ ~DiffFails(Content(cur, prev), rcs_deltas[id])
                    /\ apply_diff(Content(cur, prev), rcs_deltas[id])
                         = Content(cur, rev)

\* The blocks of a trunk of three revisions or more have been delivered.
C15_Witness ==
  /\ AllDelivered
  /\ Cardinality(TrunkOf(repo[cur])) >= 3
  /\ text_record_db.text_records[original_ids(cur, <<1, 3>>)].pred_id
       = original_ids(cur, <<1, 2>>)

\* The output pass is at work on file f, a trunk of three revisions that are
\* all wanted.
Trunk3(f) ==
  /\ pc = "output" /\ err = "none"
  /\ repo[f] = {<<1, 1>>, <<1, 2>>, <<1, 3>>}
  /\ cvs_file_items[f] = repo[f]

\* The revisions of file f requested or skipped so far.
RequestedOf(f) == { p[2] : p \in { q \in requested : q[1] = f } }

\* Of file f, 1.3 and nothing else has been requested, by the
\* get_content_stream call that has just returned.
After13(f) ==
  /\ Trunk3(f)
  /\ RequestedOf(f) = {<<1, 3>>}
  /\ last.op = "get_content_stream" /\ last.file = f

\* The keys of the CheckoutStore that belong to revisions of file f.
CheckedOutOf(f) == { id \in Ids(f, repo[f]) : Hex(id) \in DOMAIN co_db }

\* The step is the get_content_stream call for revision rev of file f.
Gets(f, rev) ==
  /\ <<f, rev>> \notin requested
  /\ <<f, rev>> \in requested'
  /\ last'.op = "get_content_stream"

\* C16 as stated: after the request for 1.3 the CheckoutStore holds the
\* fulltexts of 1.1 and of 1.2, and the content of 1.3 was returned.
C16_BothMaterialized ==
  \A f \in DOMAIN repo :
    After13(f) =>
      /\ last.text = Content(f, <<1, 3>>)
      /\ CheckedOutOf(f) = {original_ids(f, <<1, 1>>), original_ids(f, <<1, 2>>)}

\* C16 as amended: the request for 1.3 returns the content of 1.3 and
\* stores the fulltext of 1.2, and of no other revision, in the
\* CheckoutStore; 1.2 becomes a CheckedOut record with refcount 1, 1.1
\* stays a FullText record with refcount 1, 1.3 is removed.  Once 1.3 has
\* been checked out, a request for 1.2 returns the CheckoutStore entry of
\* 1.2 and a request for 1.1 returns the DeltaStore entry of 1.1, and
\* neither applies a delta.
C16_OnlyDeltaMaterialized ==
  /\ [](\A f \in DOMAIN repo :
          After13(f) =>
            LET id11 == original_ids(f, <<1, 1>>)
                id12 == original_ids(f, <<1, 2>>)
            IN  /\ last.text = Content(f, <<1, 3>>)
                /\ CheckedOutOf(f) = {id12}
                /\ co_db[Hex(id12)] = Content(f, <<1, 2>>)
                /\ DOMAIN text_record_db.text_records \cap Ids(f, repo[f])
                     = {id11, id12}
                /\ text_record_db.text_records[id12] =
                     [CheckedOutTextRecord(id12) EXCEPT !.refcount = 1]
                /\ text_record_db.text_records[id11] =
                     [FullTextRecord(id11) EXCEPT !.refcount = 1])
  /\ [][\A f \in DOMAIN repo :
          (Trunk3(f) /\ Applied(original_ids(f, <<1, 3>>)) = 1) =>
            /\ Gets(f, <<1, 2>>) =>
                 /\ last'.text = co_db[Hex(original_ids(f, <<1, 2>>))]
                 /\ applied' = applied
            /\ Gets(f, <<1, 1>>) =>
                 /\ last'.text = rcs_deltas[original_ids(f, <<1, 1>>)]
                 /\ applied' = applied]_vars

\* 1.3 was requested first and 1.2 after it; the call for 1.2 has returned
\* the content of 1.2 and has removed its fulltext from the CheckoutStore.
C16_Witness ==
  \E f \in DOMAIN repo :
    /\ Trunk3(f)
    /\ RequestedOf(f) = {<<1, 3>>, <<1, 2>>}
    /\ last.op = "get_content_stream" /\ last.file = f
    /\ last.id = original_ids(f, <<1, 2>>)
    /\ last.text = Content(f, <<1, 2>>)
    /\ Applied(original_ids(f, <<1, 3>>)) = 1
    /\ CheckedOutOf(f) = {}

\* The records of file f in the database.
RecordsOf(f) ==
  [id \in DOMAIN text_record_db.text_records \cap Ids(f, repo[f]) |->
     text_record_db.text_records[id]]

\* File f is a trunk of three revisions of which those in wanted are
\* wanted; 1.2 has been skipped and no other revision of f was asked for.
Skipped12(f, wanted) ==
  /\ pc = "output" /\ err = "none"
  /\ repo[f] = {<<1, 1>>, <<1, 2>>, <<1, 3>>}
  /\ cvs_file_items[f] = wanted
  /\ RequestedOf(f) = {<<1, 2>>}
  /\ f \in loaded_files
  /\ text_record_db.text_records[original_ids(f, <<1, 2>>)].kind = "DeltaTextRecord"

\* C17 as stated: with the three revisions wanted, get_content_stream(1.3)
\* after skip_content(1.2) returns the content of 1.3 and leaves no record
\* of the file in the database.
C17_SkipThenGetEmpties ==
  [][\A f \in DOMAIN repo :
       (Skipped12(f, repo[f]) /\ Gets(f, <<1, 3>>)) =>
         /\ last'.text = Content(f, <<1, 3>>)
         /\ DOMAIN RecordsOf(f)' = {}]_vars

\* C17 as amended: get_content_stream(1.3) after skip_content(1.2) returns
\* the content of 1.3.  With the three revisions wanted it leaves the
\* FullText record of 1.1, with refcount 1, and nothing in the
\* CheckoutStore; with 1.2 and 1.3 wanted and 1.1 not, it leaves no record
\* of the file.
C17_SkipThenGetLeavesRoot ==
  [][\A f \in DOMAIN repo :
       Gets(f, <<1, 3>>) =>
         /\ Skipped12(f, repo[f]) =>
              /\ last'.text = Content(f, <<1, 3>>)
              /\ RecordsOf(f)' =
                   Put(EmptyMap, original_ids(f, <<1, 1>>),
                       [FullTextRecord(original_ids(f, <<1, 1>>)) EXCEPT !.refcount = 1])
              /\ CheckedOutOf(f)' = {}
         /\ Skipped12(f, {<<1, 2>>, <<1, 3>>}) =>
              /\ last'.text = Content(f, <<1, 3>>)
              /\ DOMAIN RecordsOf(f)' = {}]_vars

\* With the three revisions wanted, 1.2 and then 1.3 have been asked for;
\* the call for 1.3 applied the deltas of 1.2 and 1.3 and discarded no
\* record, so 1.2 had been skipped, and the record of 1.1 is left.
C17_Witness ==
  \E f \in DOMAIN repo :
    /\ Trunk3(f)
    /\ RequestedOf(f) = {<<1, 2>>, <<1, 3>>}
    /\ last.op = "get_content_stream" /\ last.file = f
    /\ last.id = original_ids(f, <<1, 3>>)
    /\ last.text = Content(f, <<1, 3>>)
    /\ last.depth = 1
    /\ DOMAIN RecordsOf(f) = {original_ids(f, <<1, 1>>)}

\* The step is the skip_content call for revision rev of file f.
Skips(f, rev) ==
  /\ <<f, rev>> \notin requested
  /\ <<f, rev>> \in requested'
  /\ last'.op = "skip_content"

\* What skip_content(rev) of file f does to the records M it finds, when M
\* and N are the records before and after the call.
SkipAccounts(M, N, id) ==
  LET less(x) == [M[x] EXCEPT !.refcount = @ - 1]
  IN  IF Dependents(M, id) # {}
        THEN N = [M EXCEPT ![id] = less(id)]
        ELSE /\ id \notin DOMAIN N
             /\ M[id].kind = "DeltaTextRecord" =>
                  LET pred_id == M[id].pred_id
                  IN  IF M[pred_id].refcount = 1
                        THEN pred_id \notin DOMAIN N
                        ELSE pred_id \in DOMAIN N /\ N[pred_id] = less(pred_id)

\* C18: skip_content of a revision that Delta records in the database
\* depend on leaves its record in the database with the refcount one lower
\* and changes no other record; skip_content of a revision that no record
\* depends on removes its record and, for a Delta, lowers the refcount of
\* its predecessor by one, removing the predecessor when that was its last
\* reference.  No skip_content raises, and every get_content_stream
\* returns the content of the revision as it was committed, whatever was
\* skipped before.
C18_SkipHonoursDependencies ==
  /\ [][\A f \in DOMAIN repo : \A rev \in repo[f] :
          (pc = "output" /\ Skips(f, rev)) =>
            /\ err' = "none"
            /\ SkipAccounts(get_text_record(Bundle, f).text_records,
                            text_record_db'.text_records,
                            original_ids(f, rev))]_vars
  /\ [](last.op = "get_content_stream" =>
          \E rev \in repo[last.file] :
            /\ original_ids(last.file, rev) = last.id
            /\ last.text = Content(last.file, rev))

\* A Delta that no record depended on has just been skipped and removed,
\* its predecessor staying with a refcount one lower, while another Delta
\* that was skipped before is still in the database for its dependents.
C18_Witness ==
  /\ pc = "output" /\ last.op = "skip_content" /\ err = "none"
  /\ Snapshot(last.file)[last.id].kind = "DeltaTextRecord"
  /\ last.id \notin DOMAIN text_record_db.text_records
  /\ LET pred_id == Snapshot(last.file)[last.id].pred_id
     IN  /\ pred_id \in DOMAIN text_record_db.text_records
         /\ text_record_db.text_records[pred_id].refcount >= 1
  /\ \E p \in requested :
       /\ original_ids(p[1], p[2]) \in DOMAIN text_record_db.text_records
       /\ text_record_db.text_records[original_ids(p[1], p[2])].kind
            = "DeltaTextRecord"

\* C19: a set_revision_info call for a revision that was seen before in the
\* file adds no record, writes no DeltaStore entry, raises nothing and
\* leaves the sink as it was, so that the records and the DeltaStore are
\* those of the run without the repeated block.
C19_DuplicateBlockIgnored ==
  [][(pc = "collect" /\ stage = "texts" /\ duplicate') =>
       /\ sink' = sink
       /\ text_record_db' = text_record_db
       /\ rcs_deltas' = rcs_deltas
       /\ err' = "none" /\ pc' = "collect"]_vars

\* The block of 1.1 has been delivered a second time, after the FullText
\* record of 1.1 was written.
C19_Witness ==
  /\ pc = "collect" /\ stage = "texts" /\ duplicate /\ err = "none"
  /\ <<1, 1>> \in sink.revisions_seen
  /\ original_ids(cur, <<1, 1>>) \in DOMAIN rcs_deltas
  /\ text_record_db.text_records[original_ids(cur, <<1, 1>>)].kind = "FullTextRecord"
  /\ Cardinality(DOMAIN text_record_db.text_records) >= 2

\* The database that loading the pickle state gives has the records M, null
\* stores and no cascade active, and pickles to state again.
RoundTrip(M, state) ==
  LET D == setstate(state)
  IN  /\ Ok(D)
      /\ D.text_records = M
      /\ getstate(D) = state
      /\ D.delta_kind = "NullDatabase" /\ D.checkout_kind = "NullDatabase"
      /\ D.deferred_deletes = NoList

Discards == last'.op = "discard" /\ last' # last

\* C21: a discard call whose first id to be looked at (the last of its
\* arguments) names a record with a refcount that is not zero raises
\* InternalError and changes no record and no entry of the DeltaStore or
\* the CheckoutStore; and whenever a discard call raises InternalError, one
\* of its ids names a record that is still in the database with a refcount
\* that is not zero and with its DeltaStore entry.
C21_DiscardRefusesNonzero ==
  [][(Discards /\ text_record_db.deferred_deletes = NoList) =>
       LET ids == last'.ids
           id  == ids[Len(ids)]
           M   == text_record_db.text_records
           N   == text_record_db'.text_records
       IN  /\ (id \in DOMAIN M /\ M[id].refcount # 0) =>
                /\ err' = "InternalError"
                /\ N = M
                /\ rcs_deltas' = rcs_deltas
                /\ co_db' = co_db
           /\ err' = "InternalError" =>
                \E k \in DOMAIN ids :
                  /\ ids[k] \in DOMAIN N
                  /\ N[ids[k]].refcount # 0
                  /\ ids[k] \in DOMAIN rcs_deltas']_vars

\* A discard call for a record with a refcount of two, on which another
\* record depends, has raised InternalError.
C21_Witness ==
  /\ last.op = "discard" /\ err = "InternalError"
  /\ Len(last.ids) = 1
  /\ last.ids[1] \in DOMAIN text_record_db.text_records
  /\ text_record_db.text_records[last.ids[1]].refcount = 2
  /\ last.ids[1] \in DOMAIN rcs_deltas

\* A file whose records were loaded has a wanted revision that was neither
\* requested nor skipped.
Unconsumed ==
  \E f \in loaded_files : \E r \in cvs_file_items[f] : <<f, r>> \notin requested

\* C22: finish() completes whether or not records are left; it writes the
\* leftover warning exactly when the TextRecordDatabase still holds a
\* record, which is exactly when a loaded file has a wanted revision that
\* no get_content_stream or skip_content call has consumed.
C22_FinishWarnsOfLeftovers ==
  pc = "done" =>
    /\ err = "none"
    /\ leftovers <=> (DOMAIN text_record_db.text_records # {})
    /\ leftovers <=> Unconsumed

\* finish() has warned after an output pass in which some revisions were
\* requested and the fulltext of one that is still owed was checked out.
C22_Witness ==
  /\ pc = "done" /\ leftovers
  /\ requested # {}
  /\ \E id \in DOMAIN text_record_db.text_records :
       text_record_db.text_records[id].kind = "CheckedOutTextRecord"

\* The revision of the last call.
LastRev == CHOOSE rev \in repo[last.file] : original_ids(last.file, rev) = last.id

\* C23: get_content_stream returns the checked-out text as it is for a file
\* of mode 'b' or 'o'; otherwise, with suppress_keyword_substitution set or
\* mode 'k', the text with every keyword that has a value reduced to the
\* bare keyword; otherwise the text with every keyword, bare or with a
\* value, given the value of the revision.  Lines that name no keyword are
\* never changed, and the records, the CheckoutStore and the DeltaStore
\* after the call are those the checkout alone leaves, whatever the mode
\* and the flag.
C23_KeywordHandlingByMode ==
  /\ []((last.op = "get_content_stream" /\ err = "none") =>
          /\ Len(last.stream) = Len(last.text)
          /\ \A i \in DOMAIN last.text :
               LET line == last.text[i]
                   out  == last.stream[i]
               IN  IF last.mode \in {"b", "o"} THEN out = line
                   ELSE IF last.suppress \/ last.mode = "k"
                     THEN out = (IF line = "$State: dead $" THEN "$State$" ELSE line)
                     ELSE out = (CASE line = "$Revision$" ->
                                        "$Revision: " \o RevString(LastRev) \o " $"
                                   [] line = "$State: dead $" -> "$State: Exp $"
                                   [] OTHER -> line))
  /\ [][\A f \in DOMAIN repo : \A rev \in repo[f] :
          Gets(f, rev) =>
            LET r == checkout(get_text_record(Bundle, f), original_ids(f, rev))
            IN  /\ text_record_db' = DbOf(r.D)
                /\ co_db' = r.D.checkout_db
                /\ rcs_deltas' = rcs_deltas
                /\ last'.text = Content(f, rev)]_vars

\* get_content_stream has expanded the keyword Revision in revision 1.2 of
\* a file of mode 'kv' and has left the line "$Foo: 1 $" alone.
C23_Witness ==
  /\ last.op = "get_content_stream" /\ err = "none"
  /\ last.mode = "kv" /\ ~last.suppress
  /\ last.text = <<"$Foo: 1 $", "a", "$Revision$">>
  /\ last.stream = <<"$Foo: 1 $", "a", "$Revision: 1.2 $">>

\* The revision of file f whose record is id.
RevOf(f, id) == CHOOSE rev \in repo[f] : original_ids(f, rev) = id

\* C24: every DeltaTextRecord that a get_content_stream call checks out,
\* the requested one and those it is derived from, has refcount n >= 1
\* before and ends in one of two ways.  With n = 1 it is gone from the
\* database and nothing is in the CheckoutStore under its id.  With n > 1
\* it has been replaced by the CheckedOutTextRecord of the same id with
\* refcount n - 1, and the CheckoutStore holds its fulltext.  In both cases
\* its predecessor has lost one reference, no more: it is gone if it had
\* one, and has one less otherwise.  The requested record, if it is a
\* DeltaTextRecord, is among those checked out.
C24_DeltaCheckoutEndStates ==
  [][\A f \in DOMAIN repo : \A rev \in repo[f] :
       (Gets(f, rev) /\ err' = "none") =>
         LET records == get_text_record(Bundle, f).text_records
             after   == text_record_db'.text_records
             own     == original_ids(f, rev)
         IN  /\ own \in DOMAIN records
             /\ records[own].kind = "DeltaTextRecord" => Applied(own)' > Applied(own)
             /\ \A id \in DOMAIN records :
                  (records[id].kind = "DeltaTextRecord" /\ Applied(id)' > Applied(id)) =>
                    LET n == records[id].refcount
                        p == records[id].pred_id
                        m == records[p].refcount
                    IN  /\ n >= 1
                        /\ Applied(id)' = Applied(id) + 1
                        /\ n = 1 => /\ id \notin DOMAIN after
                                    /\ Hex(id) \notin DOMAIN co_db'
                        /\ n > 1 => /\ id \in DOMAIN after
                                    /\ after[id] = [CheckedOutTextRecord(id) EXCEPT
                                                      !.refcount = n - 1]
                                    /\ Hex(id) \in DOMAIN co_db'
                                    /\ co_db'[Hex(id)] = Content(f, RevOf(f, id))
                        /\ m = 1 => p \notin DOMAIN after
                        /\ m > 1 => /\ p \in DOMAIN after
                                    /\ after[p].refcount = m - 1]_vars

\* A get_content_stream call has just checked out a DeltaTextRecord with
\* refcount 1, which is gone, from a DeltaTextRecord with a higher
\* refcount, which is now a CheckedOutTextRecord with its fulltext in the
\* CheckoutStore.
C24_Witness ==
  /\ last.op = "get_content_stream" /\ err = "none"
  /\ last.id \notin DOMAIN text_record_db.text_records
  /\ Applied(last.id) = 1
  /\ Hex(last.id) \notin DOMAIN co_db
  /\ \E id \in DOMAIN text_record_db.text_records :
       /\ id \in Ids(last.file, repo[last.file])
       /\ text_record_db.text_records[id].kind = "CheckedOutTextRecord"
       /\ Applied(id) = 1
       /\ Hex(id) \in DOMAIN co_db
       /\ requested = {<<last.file, RevOf(last.file, last.id)>>}

\* The revision a branch revision is a delta on: the branch point for the
\* first revision of the branch, the revision before it for a later one.
BaseOf(rev) ==
  IF rev[Len(rev)] = 1 THEN SubSeq(rev, 1, Len(rev) - 2)
  ELSE [rev EXCEPT ![Len(rev)] = @ - 1]

\* File f has revision 1.1 and the branch revision 1.1.2.1, both wanted.
BranchFile(f) ==
  /\ repo[f] = {<<1, 1>>, <<1, 1, 2, 1>>}
  /\ cvs_file_items[f] = repo[f]

\* C25: when the parser has delivered the deltatext blocks of a file, every
\* branch revision has base_revisions set to the branch point if it is the
\* first of its branch and to the previous revision of the branch if not,
\* its record is the Delta with its own id and the id of that base as
\* pred_id, and its DeltaStore entry is the text the parser delivered.  For
\* a file of 1.1 and 1.1.2.1, both wanted, a request returns the content of
\* the revision asked for, that of 1.1.2.1 being the content of 1.1 with
\* the line of the branch delta added.
C25_BranchRecords ==
  /\ AllDelivered =>
       \A rev \in repo[cur] \ TrunkOf(repo[cur]) :
         LET id == original_ids(cur, rev)
         IN  /\ rev \in DOMAIN sink.base_revisions
             /\ sink.base_revisions[rev] = BaseOf(rev)
             /\ id \in DOMAIN text_record_db.text_records
             /\ text_record_db.text_records[id] =
                  DeltaTextRecord(id, original_ids(cur, BaseOf(rev)))
             /\ id \in DOMAIN rcs_deltas
             /\ rcs_deltas[id] = DeltaText(cur, repo[cur], rev)
  /\ (last.op = "get_content_stream" /\ pc = "output" /\ BranchFile(last.file)) =>
       /\ err = "none"
       /\ last.id = original_ids(last.file, <<1, 1>>) =>
            last.text = TrunkText(last.file, 1)
       /\ last.id = original_ids(last.file, <<1, 1, 2, 1>>) =>
            last.text = <<"y">> \o TrunkText(last.file, 1)

\* The blocks of a file with a branch of two revisions have been delivered.
C25_Witness ==
  /\ AllDelivered
  /\ <<1, 1, 2, 2>> \in repo[cur]
  /\ text_record_db.text_records[original_ids(cur, <<1, 1, 2, 2>>)].pred_id
       = original_ids(cur, <<1, 1, 2, 1>>)
  /\ text_record_db.text_records[original_ids(cur, <<1, 1, 2, 1>>)].pred_id
       = original_ids(cur, <<1, 1>>)

\* The elements of the sequence s.
Range(s) == { s[i] : i \in DOMAIN s }

\* C26: a discard call made while a cascade is active leaves the records
\* and both stores as they were, calls no free and makes deferred_deletes
\* one id longer; and when the outer-level discard has returned, free has
\* been called for every id that such a call appended, the record of the id
\* is gone and deferred_deletes is None again.  This holds for the cascades
\* of free_unused in the collect and the filter pass and for those of
\* get_content_stream and skip_content.
C26_NestedDiscardDeferred ==
  /\ Pruned =>
       /\ recomputed.cascade.nested_ok
       /\ Range(recomputed.cascade.nested) \subseteq Range(recomputed.cascade.freed)
       /\ Range(recomputed.cascade.nested) \cap DOMAIN recomputed.pruned = {}
  /\ (pc = "output" /\ err = "none") =>
       /\ last.cascade.nested_ok
       /\ Range(last.cascade.nested) \subseteq Range(last.cascade.freed)
       /\ Range(last.cascade.nested) \cap DOMAIN text_record_db.text_records = {}
  /\ (Pruned \/ (pc = "output" /\ err = "none")) =>
       text_record_db.deferred_deletes = NoList

\* free_unused has removed a chain of records: discard was called twice
\* while the cascade was active, each time from the free of the record
\* before, and both records were freed after that of the first call.
C26_Witness ==
  /\ Pruned
  /\ Len(recomputed.cascade.nested) = 2
  /\ Len(recomputed.cascade.pushed) = 3
  /\ recomputed.cascade.freed = recomputed.cascade.pushed
  /\ DOMAIN recomputed.pruned = {}

\* No element occurs twice in the sequence s.
NoDuplicates(s) == \A i, j \in DOMAIN s : i # j => s[i] # s[j]

\* What the calls of one operation did is what a cascade should do: no id
\* was handed to discard twice and free was called once for each.
CleanCascade(c) ==
  /\ NoDuplicates(c.pushed)
  /\ NoDuplicates(c.freed)
  /\ Range(c.freed) = Range(c.pushed)

\* C27: no operation of the conversion ends with the InternalError of a
\* record popped with a nonzero refcount or with the KeyError of a record
\* that is gone.  In the cascade of free_unused no id is handed to discard
\* twice, free is called once for each id and for no other, and the ids are
\* those of the records that are gone afterwards: the cascade ends after
\* as many rounds as records were removed.  The cascades of
\* get_content_stream and skip_content hand no id to discard twice either.
C27_CascadeFreesOnce ==
  /\ err \notin {"InternalError", "KeyError"}
  /\ Pruned =>
       /\ CleanCascade(recomputed.cascade)
       /\ Range(recomputed.cascade.pushed)
            = DOMAIN recomputed.before \ DOMAIN recomputed.pruned
  /\ (pc = "output" /\ err = "none") => CleanCascade(last.cascade)

\* free_unused has removed three records of a file and kept another: one
\* record was unused from the start, two became unused in the cascade.
C27_Witness ==
  /\ Pruned
  /\ Len(recomputed.cascade.pushed) = 3
  /\ Len(recomputed.cascade.nested) = 2
  /\ Cardinality(DOMAIN recomputed.pruned) = 1

\* C28: between the calls a client makes, and so whenever control is
\* outside discard, whether the last call returned or raised,
\* deferred_deletes is None (and the next discard call is therefore an
\* outer-level one).
C28_NoCascadeAcrossCalls == text_record_db.deferred_deletes = NoList

\* Every record of the map M has a refcount of one or more.
AllReferenced(M) == \A id \in DOMAIN M : M[id].refcount >= 1

\* C29: after free_unused in the collect and in the filter pass, and
\* between the calls of the output pass, every record of the
\* TextRecordDatabase has a refcount of one or more, so a record whose
\* refcount came to 0 was removed by the operation that brought it there;
\* and no operation has called decrement_refcount on a record whose
\* refcount was 0.  Each revision is requested or skipped at most once.
C29_NoZeroRefcountStanding ==
  /\ Pruned => AllReferenced(recomputed.pruned)
  /\ (pc \in {"output", "done"} /\ err = "none") =>
       AllReferenced(text_record_db.text_records)
  /\ ~recomputed.cascade.underflow
  /\ ~last.cascade.underflow

\* A get_content_stream call has just removed the record asked for, a
\* discard in it having freed a record whose refcount came to 0, while
\* another record of the file stays with a refcount of one or more.
C29_Witness ==
  /\ pc = "output" /\ err = "none" /\ last.op = "get_content_stream"
  /\ last.id \notin DOMAIN text_record_db.text_records
  /\ Len(last.cascade.freed) >= 1
  /\ \E id \in DOMAIN text_record_db.text_records :
       /\ id \in Ids(last.file, repo[last.file])
       /\ text_record_db.text_records[id].refcount >= 1

\* C30: when invert_diff fails on the delta of a trunk revision, the
\* conversion of the file stops there with RuntimeError:
\* recompute_refcounts and free_unused are not run for the file, and the
\* TreeStore gets no snapshot of it.  No error is
\* passed over: the records that recompute_refcounts is run on are those of
\* all revisions of the file, and the TreeStore holds snapshots of the
\* files before the current one only while the collect pass is at work.
C30_MalformedDeltaAbortsFile ==
  /\ err = "RuntimeError" =>
       /\ pc = "failed" /\ stage = "texts"
       /\ cur \notin DOMAIN rcs_trees
       /\ cur \notin DOMAIN cvs_file_items
       /\ recomputed.file # cur
  /\ pc \in {"collect", "failed"} => DOMAIN rcs_trees = 1..(cur - 1)
  /\ recomputed.pass = "collect" =>
       DOMAIN recomputed.before = Ids(recomputed.file, repo[recomputed.file])

\* invert_diff has failed on a trunk delta after a record of the file had
\* been written.
C30_Witness ==
  /\ err = "RuntimeError" /\ pc = "failed"
  /\ DOMAIN text_record_db.text_records \cap Ids(cur, repo[cur]) # {}
  /\ cur \notin DOMAIN rcs_trees

RECURSIVE StartsWith(_, _)
\* The characters of p are the first characters of q.
StartsWith(q, p) ==
  IF p = <<>> THEN TRUE
  ELSE IF q = <<>> THEN FALSE
  ELSE Head(p) = Head(q) /\ StartsWith(Tail(q), Tail(p))

\* Path q is path p or lies under it: the components of p are the first
\* components of q, the empty path having no component.
NestedIn(q, p) == p = <<>> \/ q = p \/ StartsWith(q, Append(p, "/"))

\* C31: verify_paths_disjoint raises FatalError if and only if two of its
\* arguments are the same path or one of them lies under another, in
\* whatever order the arguments are given.
C31_PathsDisjointOrFatal ==
  fatal # "none" =>
    (fatal = "FatalError" <=>
       \E i, j \in DOMAIN paths : i # j /\ NestedIn(paths[i], paths[j]))

\* verify_paths_disjoint has raised for three paths of which the first and
\* the last to be sorted are nested and the one sorted between them lies
\* under the first as well.
C31_Witness ==
  /\ fatal = "FatalError"
  /\ paths = <<<<"a", "/", "a">>, <<"a">>, <<"a", "/", "-">>>>

\* The ids of the records of the database that are of class kind.
IdsOfKind(kind) ==
  { id \in DOMAIN text_record_db.text_records :
      text_record_db.text_records[id].kind = kind }

\* C32: between the operations of the output pass the keys of the
\* CheckoutStore are the ids, written in hexadecimal, of the
\* CheckedOutTextRecords of the database, one key for each: no
\* FullTextRecord and no DeltaTextRecord has an entry, and no entry is left
\* of a record that is gone.  Before the output pass the CheckoutStore is
\* empty.
C32_CheckoutStoreMirrorsCheckedOut ==
  /\ (pc \in {"output", "done"} /\ err = "none") =>
       /\ DOMAIN co_db = { Hex(id) : id \in IdsOfKind("CheckedOutTextRecord") }
       /\ Cardinality(DOMAIN co_db) = Cardinality(IdsOfKind("CheckedOutTextRecord"))
       /\ \A id \in IdsOfKind("FullTextRecord") \cup IdsOfKind("DeltaTextRecord") :
            Hex(id) \notin DOMAIN co_db
  /\ pc \in {"collect", "filter", "start", "failed"} => DOMAIN co_db = {}

\* The database holds a CheckedOutTextRecord, with its fulltext in the
\* CheckoutStore, next to a FullTextRecord and a DeltaTextRecord, after the
\* request for another CheckedOutTextRecord has freed that record and so
\* deleted its entry.
C32_Witness ==
  /\ pc = "output" /\ err = "none"
  /\ IdsOfKind("CheckedOutTextRecord") # {}
  /\ IdsOfKind("FullTextRecord") # {}
  /\ IdsOfKind("DeltaTextRecord") # {}
  /\ last.op = "get_content_stream"
  /\ last.id \notin DOMAIN text_record_db.text_records
  /\ Snapshot(last.file)[last.id].kind = "DeltaTextRecord"
  /\ Applied(last.id) = 1
  /\ last.id \in Range(last.cascade.freed)

\* The ids of the wanted revisions of the loaded files that were neither
\* requested nor skipped so far.
Outstanding ==
  { original_ids(p[1], p[2]) :
      p \in { q \in loaded_files \X AllRevs :
                q[2] \in cvs_file_items[q[1]] /\ q \notin requested } }

\* C33: between the operations of the output pass the refcount of every
\* record of the database is the number of records that are still
\* DeltaTextRecords and have it as pred_id, plus one if its revision is
\* wanted and was neither requested nor skipped yet; and the predecessor
\* of every DeltaTextRecord is in the database.
C33_OutputRefcountAccounting ==
  (pc \in {"output", "done"} /\ err = "none") =>
    LET M == text_record_db.text_records
    IN  \A id \in DOMAIN M :
          /\ M[id].refcount =
               Cardinality(Dependents(M, id))
                 + (IF id \in Outstanding THEN 1 ELSE 0)
          /\ M[id].kind = "DeltaTextRecord" => M[id].pred_id \in DOMAIN M

\* In the output pass the database holds a CheckedOutTextRecord that no
\* request is outstanding for and that stays for the one DeltaTextRecord
\* that depends on it, and a record with a refcount of two whose own
\* request is still to come.
C33_Witness ==
  /\ pc = "output" /\ err = "none"
  /\ LET M == text_record_db.text_records
     IN  /\ \E id \in DOMAIN M :
              /\ id \notin Outstanding
              /\ M[id].kind = "CheckedOutTextRecord"
              /\ Cardinality(Dependents(M, id)) = 1
         /\ \E id \in DOMAIN M :
              /\ id \in Outstanding
              /\ M[id].refcount = 2

\* The records that recompute_refcounts and free_unused leave of the
\* records M when the revisions with the ids wanted are wanted.
Recomputed(M, wanted) ==
  LET D0 == [TextRecordDatabase(rcs_deltas, "NullDatabase", EmptyMap, "NullDatabase")
               EXCEPT !.text_records = M]
      D1 == recompute_refcounts(D0, wanted)
  IN  free_unused(D1, CHOOSE order \in Orders(Unused(D1)) : TRUE)

\* The records last left are a fixed point for their wanted revisions, and
\* for fewer wanted revisions some of them are left and no other.  Every
\* recomputation ends in a state of the collect or filter pass or at the
\* start of the output pass, so it is enough to look there.
RecomputedAgain ==
  /\ Recomputed(recomputed.pruned, recomputed.wanted).err = "none"
  /\ Recomputed(recomputed.pruned, recomputed.wanted).text_records
       = recomputed.pruned
  /\ \A fewer \in SUBSET recomputed.wanted :
       LET again == Recomputed(recomputed.pruned, fewer)
       IN  /\ again.err = "none"
           /\ DOMAIN again.text_records \subseteq DOMAIN recomputed.pruned

\* C34: recompute_refcounts and free_unused run again on the records they
\* have left, for the same wanted revisions, raise nothing, remove no
\* record and leave every refcount as it is; run for fewer wanted
\* revisions they leave some of these records and no other.  So the filter
\* pass, when it excludes nothing from a file, stores the snapshot the
\* collect pass stored, and when it excludes revisions it stores records
\* of that snapshot only, none with a higher refcount than before.
C34_RecomputeIdempotent ==
  /\ [](Pruned /\ pc \in {"collect", "filter", "start"} => RecomputedAgain)
  /\ [][pc = "filter" =>
          LET before == recomputed'.before
              pruned == recomputed'.pruned
          IN  /\ err' = "none"
              /\ recomputed'.pass = "filter"
              /\ before = setstate(rcs_trees[cur]).text_records
              /\ DOMAIN pruned \subseteq DOMAIN before
              /\ \A id \in DOMAIN pruned :
                   /\ pruned[id].refcount <= before[id].refcount
                   /\ [pruned[id] EXCEPT !.refcount = 0]
                        = [before[id] EXCEPT !.refcount = 0]
              /\ cvs_file_items'[cur] = cvs_file_items[cur] =>
                   /\ pruned = before
                   /\ recomputed'.cascade.pushed = <<>>
                   /\ rcs_trees_filtered'[cur] = rcs_trees[cur]]_vars

\* The filter pass has just excluded nothing from a file of which the
\* collect pass had removed a record, and has left the other records with
\* their refcounts, one of them two or more.
C34_Witness ==
  /\ Pruned /\ recomputed.pass = "filter"
  /\ recomputed.pruned = recomputed.before
  /\ recomputed.cascade.pushed = <<>>
  /\ Cardinality(DOMAIN recomputed.pruned) < Cardinality(repo[recomputed.file])
  /\ \E id \in DOMAIN recomputed.pruned : recomputed.pruned[id].refcount >= 2
  /\ rcs_trees_filtered[recomputed.file] = rcs_trees[recomputed.file]

\* The trunk revisions 1.1 to 1.k.
TrunkUpTo(k) == { <<1, j>> : j \in 1..k }

\* File f is a trunk of n revisions, all wanted, and the output pass is at
\* work.
TrunkChain(f, n) ==
  /\ pc = "output" /\ err = "none"
  /\ repo[f] = TrunkUpTo(n)
  /\ cvs_file_items[f] = repo[f]

\* Of file f the revisions 1.1 to 1.k have been asked for and no other,
\* and each of 1.2 to 1.k was checked out by its own request.
InOrder(f, k) ==
  /\ RequestedOf(f) = TrunkUpTo(k)
  /\ \A j \in 2..k : Applied(original_ids(f, <<1, j>>)) = 1

\* The step is the request for 1.(k+1) of file f, a trunk of n revisions
\* of which 1.1 to 1.k were requested in order.
NextInOrder(f, n, k) ==
  TrunkChain(f, n) /\ InOrder(f, k) /\ Gets(f, <<1, k + 1>>)

\* C35 as stated: when the revisions of a trunk, all wanted, are requested
\* in the order 1.1, 1.2, ..., the CheckoutStore never holds more than one
\* fulltext of the file, and the request for 1.(k+1) deletes the fulltext
\* of 1.k from it, for every k from 1 on.
C35_EachFulltextDeletedByNext ==
  [][\A f \in DOMAIN repo : \A n \in 2..MaxRevs : \A k \in 1..(n - 1) :
       NextInOrder(f, n, k) =>
         /\ Cardinality(CheckedOutOf(f)) <= 1
         /\ Cardinality(CheckedOutOf(f)') <= 1
         /\ Hex(original_ids(f, <<1, k>>)) \in DOMAIN co_db
         /\ Hex(original_ids(f, <<1, k>>)) \notin DOMAIN co_db']_vars

\* C35, amended: when the revisions of a trunk of n revisions, all wanted,
\* are requested in the order 1.1, 1.2, ..., the CheckoutStore holds,
\* after the request for 1.k, the fulltext of 1.k if 1 < k < n and no
\* other fulltext of the file: the fulltext of 1.k is written by the
\* request for 1.k and deleted by the request for 1.(k+1).  The fulltext
\* of 1.1 is never in the CheckoutStore; the request for 1.2 removes the
\* FullTextRecord of 1.1 and leaves its DeltaStore entry.  The fulltext of
\* 1.n is never stored.
C35_OneFulltextInOrder ==
  /\ [](\A f \in DOMAIN repo : \A n \in 1..MaxRevs : \A k \in 1..n :
          (TrunkChain(f, n) /\ InOrder(f, k)) =>
            /\ CheckedOutOf(f) =
                 (IF 1 < k /\ k < n THEN {original_ids(f, <<1, k>>)} ELSE {})
            /\ DOMAIN text_record_db.text_records \cap Ids(f, TrunkUpTo(k - 1)) = {})
  /\ [][\A f \in DOMAIN repo : \A n \in 2..MaxRevs : \A k \in 1..(n - 1) :
          NextInOrder(f, n, k) =>
            LET id == original_ids(f, <<1, k>>)
            IN  /\ err' = "none"
                /\ last'.text = Content(f, <<1, k + 1>>)
                /\ Hex(id) \in DOMAIN co_db <=> k > 1
                /\ Hex(id) \notin DOMAIN co_db'
                /\ id \notin DOMAIN text_record_db'.text_records
                /\ id \in DOMAIN rcs_deltas'
                /\ InOrder(f, k + 1)']_vars

\* The revisions 1.1, 1.2 and 1.3 of a trunk of four have been requested
\* in order: the CheckoutStore holds the fulltext of 1.3 and nothing else,
\* that of 1.2 having been deleted by the request for 1.3.
C35_Witness ==
  \E f \in DOMAIN repo :
    /\ TrunkChain(f, 4) /\ InOrder(f, 3)
    /\ last.op = "get_content_stream"
    /\ last.id = original_ids(f, <<1, 3>>)
    /\ last.cascade.freed = <<original_ids(f, <<1, 2>>)>>
    /\ DOMAIN co_db = {Hex(original_ids(f, <<1, 3>>))}

====
